---- MODULE Spec2Model ----
(***************************************************************************)
(* Model of the epistemic-inertia front end:                               *)
(*   math_utils.symmetrize / math_utils.ensure_spd                         *)
(*   epistemic_inertia.SociologyConfig, get_preset_config, create_agents,  *)
(*   compute_epistemic_inertia, compute_social_influence_matrix            *)
(*   agent.trainer.Trainer / HamiltonianTrainer (covariance update only)   *)
(*                                                                         *)
(* Each function has its own specification (SpecSpd, SpecInfluence,        *)
(* SpecInertia, SpecAgents, SpecTrainer); the variables of the other       *)
(* functions stay at their idle values.                                    *)
(*                                                                         *)
(* Numbers.  float64 values are records [k, v]: k = "fin" with an integer  *)
(* v, or one of the IEEE specials "nan", "pinf", "ninf".  The unit of v is *)
(* stated where the value is used; inputs are drawn from grids on which    *)
(* the modelled arithmetic is exact.  The values of the social-influence   *)
(* matrix span the whole float64 range and are kept digit for digit:       *)
(* [k, hi, lo, e] is (hi * 2^26 + lo) * 2^e, with IEEE rounding.           *)
(***************************************************************************)
EXTENDS Integers, Sequences, FiniteSets, TLC

VARIABLES
    \* ensure_spd(Sigma, eps)
    Sigma, eps, spd_result,
    \* compute_social_influence_matrix(system)
    system, beta_result,
    \* compute_epistemic_inertia(system)
    mass_system, mass_at_call, M, inertia, inertia_i, inertia_pc,
    \* SociologyConfig(...) ; create_agents(n_agents, preset, config, seed)
    args, user_config, pc, config, agent_config, i, agents, call_no, first_agents,
    \* Trainer.step() / HamiltonianTrainer.step() on a MultiAgentSystem
    train, train_prev, train_delta, train_steps, train_status

spd_vars == <<Sigma, eps, spd_result>>
influence_vars == <<system, beta_result>>
inertia_vars == <<mass_system, mass_at_call, M, inertia, inertia_i, inertia_pc>>
agents_vars == <<args, user_config, pc, config, agent_config, i, agents, call_no, first_agents>>
trainer_vars == <<train, train_prev, train_delta, train_steps, train_status>>
vars == <<spd_vars, influence_vars, inertia_vars, agents_vars, trainer_vars>>

----------------------------------------------------------------------------
(* float64 values and the arithmetic the code uses on them                 *)

Fin(n) == [k |-> "fin", v |-> n]
NaN == [k |-> "nan", v |-> 0]
PosInf == [k |-> "pinf", v |-> 0]
NegInf == [k |-> "ninf", v |-> 0]

IsFin(x) == x.k = "fin"

\* x + y
FAdd(x, y) ==
    IF x.k = "nan" \/ y.k = "nan" THEN NaN
    ELSE IF x.k = "pinf" THEN (IF y.k = "ninf" THEN NaN ELSE PosInf)
    ELSE IF x.k = "ninf" THEN (IF y.k = "pinf" THEN NaN ELSE NegInf)
    ELSE IF y.k # "fin" THEN y
    ELSE Fin(x.v + y.v)

\* 0.5 * x (exact on the even grid the inputs are drawn from)
FHalf(x) == IF x.k = "fin" THEN Fin(x.v \div 2) ELSE x

\* IEEE equality: NaN equals nothing, itself included
FEq(x, y) == x.k # "nan" /\ y.k # "nan" /\ x = y

Idx(K) == 0 .. (K - 1)

\* the last axis' length of a square matrix stored as rows of columns
Dim(A) == Cardinality(DOMAIN A)

RECURSIVE SumTo(_, _)
\* f[0] + ... + f[n-1] over integers
SumTo(f, n) == IF n = 0 THEN 0 ELSE SumTo(f, n - 1) + f[n - 1]

----------------------------------------------------------------------------
(* math_utils                                                              *)

MaxDim == 2
MaxEntry == 1
MaxEps == 2

\* the matrix left as it is, never symmetrized
symmetrize_skipped(A) == A

\* 0.5 * (M + M^T)
symmetrize(A) ==
    [r \in DOMAIN A |-> [c \in DOMAIN A |-> FHalf(FAdd(A[r][c], A[c][r]))]]

\* np.eye(K): 1.0 on the diagonal, 0.0 elsewhere
eye(K) == [r \in Idx(K) |-> [c \in Idx(K) |-> IF r = c THEN 1 ELSE 0]]

\* symmetrize, then add eps * I; no check, no exception
ensure_spd(S, e) ==
    LET add_eps(Sym, I) ==
            [r \in DOMAIN I |-> [c \in DOMAIN I |-> FAdd(Sym[r][c], Fin(e * I[r][c]))]]
    IN  add_eps(symmetrize(S), eye(Dim(symmetrize(S))))

AllFinite(A) == \A r \in DOMAIN A : \A c \in DOMAIN A : IsFin(A[r][c])

IsSymmetric(A) == \A r \in DOMAIN A : \A c \in DOMAIN A : FEq(A[r][c], A[c][r])

\* determinant of the leading k x k block of an integer matrix, k <= 3
LeadingMinor(A, k) ==
    IF k = 1 THEN A[0][0]
    ELSE IF k = 2 THEN A[0][0] * A[1][1] - A[0][1] * A[1][0]
    ELSE A[0][0] * (A[1][1] * A[2][2] - A[1][2] * A[2][1])
         - A[0][1] * (A[1][0] * A[2][2] - A[1][2] * A[2][0])
         + A[0][2] * (A[1][0] * A[2][1] - A[1][1] * A[2][0])

\* symmetric with strictly positive eigenvalues (Sylvester's criterion)
IsSPD(A) ==
    /\ AllFinite(A)
    /\ IsSymmetric(A)
    /\ LET V == [r \in DOMAIN A |-> [c \in DOMAIN A |-> A[r][c].v]]
       IN  \A k \in 1 .. Dim(A) : LeadingMinor(V, k) > 0

FiniteEntries == {Fin(2 * n) : n \in (0 - MaxEntry) .. MaxEntry}
SpecialEntries == {NaN, PosInf, NegInf}

\* the result slot of a function: not called yet, or not under study
NoCall == [status |-> "idle", value |-> <<>>]
Unused == [status |-> "unused", value |-> <<>>]

\* one call of ensure_spd: it always returns
EnsureSpdCall ==
    /\ spd_result.status = "idle"
    /\ spd_result' = [status |-> "returned", value |-> ensure_spd(Sigma, eps)]
    /\ UNCHANGED <<Sigma, eps>>

----------------------------------------------------------------------------
(* epistemic_inertia: configuration                                        *)
(* Configuration reals are kept in tenths: 0.5 is 5, 1.0 is 10.            *)

Tenth == 10 ^ 1

\* the dataclass' field defaults; the dataclass has no __post_init__
DefaultSociologyConfig ==
    [belief_dimensions |-> 3,
     initial_belief_spread |-> 5,
     prior_strength |-> 3,
     social_influence_strength |-> 5,
     uncertainty_level |-> 3,
     learning_rate |-> 1,
     temperature |-> 10]

\* SociologyConfig(**fields): the generated __init__ stores what it is given
SociologyConfig(fields) ==
    [f \in DOMAIN DefaultSociologyConfig |->
        IF f \in DOMAIN fields THEN fields[f] ELSE DefaultSociologyConfig[f]]

\* config.AgentConfig: a record of the keyword arguments it is given.
\* lr_sigma_q = learning_rate * 0.1 is kept in hundredths, where it is exact.
AgentConfig(K, mu_scale, sigma_scale, lr_mu_q, lr_sigma_q) ==
    [K |-> K, mu_scale |-> mu_scale, sigma_scale |-> sigma_scale,
     lr_mu_q |-> lr_mu_q, lr_sigma_q |-> lr_sigma_q]

\* config.SystemConfig: a record of the keyword arguments it is given
SystemConfig(lambda_self, lambda_belief_align, lambda_prior_align, kappa_beta) ==
    [lambda_self |-> lambda_self, lambda_belief_align |-> lambda_belief_align,
     lambda_prior_align |-> lambda_prior_align, kappa_beta |-> kappa_beta]

to_agent_config(self) ==
    AgentConfig(self.belief_dimensions, self.initial_belief_spread,
                self.uncertainty_level, self.learning_rate, self.learning_rate * 1)

to_system_config(self) ==
    SystemConfig(1 * Tenth, self.social_influence_strength, self.prior_strength,
                 self.temperature)

----------------------------------------------------------------------------
(* epistemic_inertia.compute_social_influence_matrix                       *)
(* KL values are kept in halves, exponents in quarters.  The float64       *)
(* values the function computes (exp values, row sums, attention weights)  *)
(* are kept exactly, all 53 binary digits of them; they are all >= 0.      *)

MaxInfluenceAgents == 4
MaxMu == 1
SubnormalMu == 54
FarMu == 59

\* the 53 binary digits of a float64 are kept in two parts of 26 and 27
Limb == 2 ^ 26

\* the exponent of the last binary digit of the least and of the largest
\* finite float64: 2^-1074 is the least positive float64, and the largest
\* is (2^53 - 1) * 2^971
MinExp == 0 - 1074
MaxExp == 971

\* a finite float64 value (hi * 2^26 + lo) * 2^e >= 0, lo < 2^26: a normal
\* one has 2^26 <= hi < 2^27; a subnormal one, and 0.0, has e = MinExp and
\* hi < 2^26
F64(hi, lo, e) == [k |-> "fin", hi |-> hi, lo |-> lo, e |-> e]
F64Zero == F64(0, 0, MinExp)
IsSubnormal(x) == IsFin(x) /\ x.e = MinExp /\ x.hi < Limb /\ (x.hi > 0 \/ x.lo > 0)

\* the whole number h * 2^26 + l >= 0 as <<hi, lo>> with 0 <= lo < 2^26 (l
\* may be negative: \div rounds down)
Mk(h, l) == <<h + l \div Limb, l % Limb>>

\* floor(m / 2^d) for m = <<hi, lo>> below 2^54 and 0 <= d <= 54
ShiftR(m, d) ==
    IF d = 0 THEN m
    ELSE IF d < 26
         THEN <<m[1] \div 2 ^ d, (m[1] % 2 ^ d) * 2 ^ (26 - d) + m[2] \div 2 ^ d>>
    ELSE Mk(0, m[1] \div 2 ^ (d - 26))

\* m * 2^s for m = <<hi, lo>> with m * 2^s below 2^53 and 0 <= s <= 52
ShiftL(m, s) ==
    IF s < 26
    THEN <<m[1] * 2 ^ s + m[2] \div 2 ^ (26 - s), (m[2] % 2 ^ (26 - s)) * 2 ^ s>>
    ELSE <<(m[1] * Limb + m[2]) * 2 ^ (s - 26), 0>>

\* binary digit j (from 0, the last) of m = <<hi, lo>>, 0 <= j <= 54
Bit(m, j) ==
    IF j < 26 THEN (m[2] \div 2 ^ j) % 2 ELSE (m[1] \div 2 ^ (j - 26)) % 2

\* some of the last j binary digits of m = <<hi, lo>> is set, j <= 54
LowNonzero(m, j) ==
    IF j <= 0 THEN FALSE
    ELSE IF j <= 26 THEN m[2] % 2 ^ j # 0
    ELSE m[2] # 0 \/ m[1] % 2 ^ (j - 26) # 0

RECURSIVE BitLen(_)
\* the number of binary digits of n >= 0
BitLen(n) == IF n = 0 THEN 0 ELSE 1 + BitLen(n \div 2)

\* the number of binary digits of m = <<hi, lo>>
BitLen2(m) == IF m[1] > 0 THEN 26 + BitLen(m[1]) ELSE BitLen(m[2])

\* m >= d for m, d = <<hi, lo>>
GeP(m, d) == m[1] > d[1] \/ (m[1] = d[1] /\ m[2] >= d[2])

\* round to nearest, a tie to even: m with the digits after it dropped, the
\* first of them rb, st saying that a later one is set
RoundBits(m, rb, st) ==
    IF rb = 1 /\ (st \/ m[2] % 2 = 1) THEN Mk(m[1], m[2] + 1) ELSE m

\* the float64 with digits m <= 2^53 and exponent e >= MinExp: rounding may
\* have carried m to 2^53, and past the largest float64 lies inf
Pack(m, e) ==
    IF m[1] >= 2 * Limb
    THEN (IF e + 1 > MaxExp THEN PosInf ELSE F64(Limb, 0, e + 1))
    ELSE IF e > MaxExp THEN PosInf
    ELSE F64(m[1], m[2], e)

\* a + b for finite a, b >= 0 where a has the exponent that is not the
\* smaller: b's digits are shifted to a's exponent, the sum is taken and
\* rounded once
AddAligned(a, b) ==
    LET d == a.e - b.e
        sum_of(mb, bs) ==
            LET rb == IF d = 0 THEN 0 ELSE Bit(mb, d - 1)
                st == LowNonzero(mb, d - 1)
                round_sum(t) ==
                    IF t[1] < 2 * Limb THEN Pack(RoundBits(t, rb, st), a.e)
                    ELSE Pack(RoundBits(ShiftR(t, 1), t[2] % 2, rb = 1 \/ st), a.e + 1)
            IN  round_sum(Mk(a.hi + bs[1], a.lo + bs[2]))
    IN  IF d > 54 THEN a
        ELSE sum_of(<<b.hi, b.lo>>, ShiftR(<<b.hi, b.lo>>, d))

\* x + y in float64, for x, y >= 0
FPlus(x, y) ==
    IF x.k = "nan" \/ y.k = "nan" THEN NaN
    ELSE IF x.k = "pinf" \/ y.k = "pinf" THEN PosInf
    ELSE IF x.e >= y.e THEN AddAligned(x, y)
    ELSE AddAligned(y, x)

RECURSIVE FSumTo(_, _)
\* f[0] + ... + f[n-1] over float64 values, left to right
FSumTo(f, n) == IF n = 1 THEN f[0] ELSE FPlus(FSumTo(f, n - 1), f[n - 1])

\* x >= y and x > y in float64: false where either is nan
FGe(x, y) ==
    /\ x.k # "nan"
    /\ y.k # "nan"
    /\ \/ x.k = "pinf"
       \/ y.k = "ninf"
       \/ /\ IsFin(x)
          /\ IsFin(y)
          /\ \/ x.e > y.e
             \/ x.e = y.e /\ GeP(<<x.hi, x.lo>>, <<y.hi, y.lo>>)
FGt(x, y) == FGe(x, y) /\ x # y

\* the quarters n for which np.exp(n / 4) is a positive finite float64:
\* exp(-745.25) is 0.0 and exp(710.0) is inf
ExpLo == 0 - 2980
ExpHi == 2839

\* np.exp(n / 4) as <<hi, lo, e>>, n = ExpLo .. ExpHi, as the C library's exp
\* returns it
ExpTable ==
    <<
      <<0, 1, 0 - 1074>>, <<0, 1, 0 - 1074>>, <<0, 1, 0 - 1074>>,
      <<0, 1, 0 - 1074>>, <<0, 2, 0 - 1074>>, <<0, 2, 0 - 1074>>,
      <<0, 3, 0 - 1074>>, <<0, 3, 0 - 1074>>, <<0, 4, 0 - 1074>>,
      <<0, 5, 0 - 1074>>, <<0, 7, 0 - 1074>>, <<0, 9, 0 - 1074>>,
      <<0, 11, 0 - 1074>>, <<0, 15, 0 - 1074>>, <<0, 19, 0 - 1074>>,
      <<0, 24, 0 - 1074>>, <<0, 31, 0 - 1074>>, <<0, 40, 0 - 1074>>,
      <<0, 51, 0 - 1074>>, <<0, 66, 0 - 1074>>, <<0, 85, 0 - 1074>>,
      <<0, 109, 0 - 1074>>, <<0, 140, 0 - 1074>>, <<0, 179, 0 - 1074>>,
      <<0, 230, 0 - 1074>>, <<0, 296, 0 - 1074>>, <<0, 380, 0 - 1074>>,
      <<0, 488, 0 - 1074>>, <<0, 626, 0 - 1074>>, <<0, 804, 0 - 1074>>,
      <<0, 1033, 0 - 1074>>, <<0, 1326, 0 - 1074>>, <<0, 1703, 0 - 1074>>,
      <<0, 2187, 0 - 1074>>, <<0, 2808, 0 - 1074>>, <<0, 3605, 0 - 1074>>,
      <<0, 4629, 0 - 1074>>, <<0, 5944, 0 - 1074>>, <<0, 7632, 0 - 1074>>,
      <<0, 9799, 0 - 1074>>, <<0, 12583, 0 - 1074>>, <<0, 16156, 0 - 1074>>,
      <<0, 20745, 0 - 1074>>, <<0, 26637, 0 - 1074>>, <<0, 34203, 0 - 1074>>,
      <<0, 43918, 0 - 1074>>, <<0, 56391, 0 - 1074>>, <<0, 72408, 0 - 1074>>,
      <<0, 92974, 0 - 1074>>, <<0, 119381, 0 - 1074>>, <<0, 153288, 0 - 1074>>,
      <<0, 196825, 0 - 1074>>, <<0, 252729, 0 - 1074>>, <<0, 324510, 0 - 1074>>,
      <<0, 416679, 0 - 1074>>, <<0, 535027, 0 - 1074>>, <<0, 686988, 0 - 1074>>,
      <<0, 882110, 0 - 1074>>, <<0, 1132652, 0 - 1074>>, <<0, 1454353, 0 - 1074>>,
      <<0, 1867427, 0 - 1074>>, <<0, 2397823, 0 - 1074>>, <<0, 3078866, 0 - 1074>>,
      <<0, 3953342, 0 - 1074>>, <<0, 5076192, 0 - 1074>>, <<0, 6517959, 0 - 1074>>,
      <<0, 8369226, 0 - 1074>>, <<0, 10746298, 0 - 1074>>, <<0, 13798520, 0 - 1074>>,
      <<0, 17717651, 0 - 1074>>, <<0, 22749914, 0 - 1074>>, <<0, 29211468, 0 - 1074>>,
      <<0, 37508267, 0 - 1074>>, <<0, 48161568, 0 - 1074>>, <<0, 61840678, 0 - 1074>>,
      <<1, 12296138, 0 - 1074>>, <<1, 34849177, 0 - 1074>>, <<1, 63807852, 0 - 1074>>,
      <<2, 33882662, 0 - 1074>>, <<3, 14518582, 0 - 1074>>, <<4, 8715233, 0 - 1074>>,
      <<5, 20324209, 0 - 1074>>, <<6, 54291053, 0 - 1074>>, <<8, 49857102, 0 - 1074>>,
      <<11, 15176179, 0 - 1074>>, <<14, 27826861, 0 - 1074>>, <<18, 34143664, 0 - 1074>>,
      <<23, 51388227, 0 - 1074>>, <<30, 34616072, 0 - 1074>>, <<39, 12286832, 0 - 1074>>,
      <<50, 20943400, 0 - 1074>>, <<64, 40398915, 0 - 1074>>, <<82, 63793558, 0 - 1074>>,
      <<106, 34270905, 0 - 1074>>, <<136, 51164837, 0 - 1074>>, <<175, 40695991, 0 - 1074>>,
      <<225, 32420523, 0 - 1074>>, <<289, 35301668, 0 - 1074>>, <<371, 50921456, 0 - 1074>>,
      <<477, 23336015, 0 - 1074>>, <<612, 62184597, 0 - 1074>>, <<787, 896717, 0 - 1074>>,
      <<1010, 36585084, 0 - 1074>>, <<1297, 37961501, 0 - 1074>>, <<1666, 7200827, 0 - 1074>>,
      <<2139, 21751392, 0 - 1074>>, <<2746, 63521620, 0 - 1074>>, <<3527, 10011516, 0 - 1074>>,
      <<4528, 63699713, 0 - 1074>>, <<5815, 19185304, 0 - 1074>>, <<7466, 65423053, 0 - 1074>>,
      <<9587, 52716093, 0 - 1074>>, <<12310, 64445418, 0 - 1074>>, <<15807, 39322028, 0 - 1074>>,
      <<20297, 22959849, 0 - 1074>>, <<26062, 20346339, 0 - 1074>>, <<33464, 44272106, 0 - 1074>>,
      <<42969, 31784303, 0 - 1074>>, <<55173, 60147907, 0 - 1074>>, <<70844, 45979845, 0 - 1074>>,
      <<90966, 25258018, 0 - 1074>>, <<116803, 9350139, 0 - 1074>>, <<149978, 13398015, 0 - 1074>>,
      <<192575, 55049033, 0 - 1074>>, <<247272, 16636129, 0 - 1074>>, <<317503, 57119178, 0 - 1074>>,
      <<407683, 990706, 0 - 1074>>, <<523475, 23683199, 0 - 1074>>, <<672155, 44167187, 0 - 1074>>,
      <<863064, 63688009, 0 - 1074>>, <<1108197, 22199665, 0 - 1074>>, <<1422953, 36202126, 0 - 1074>>,
      <<1827108, 34321108, 0 - 1074>>, <<2346053, 51520507, 0 - 1074>>, <<3012392, 44738969, 0 - 1074>>,
      <<3867988, 50267124, 0 - 1074>>, <<4966595, 58064447, 0 - 1074>>, <<6377235, 21835116, 0 - 1074>>,
      <<8188532, 16506914, 0 - 1074>>, <<10514283, 35513705, 0 - 1074>>, <<13500607, 19444675, 0 - 1074>>,
      <<17335122, 60448748, 0 - 1074>>, <<22258738, 27244664, 0 - 1074>>, <<28580785, 57490702, 0 - 1074>>,
      <<36698455, 31466296, 0 - 1074>>, <<47121749, 38603083, 0 - 1074>>, <<60505524, 8951724, 0 - 1074>>,
      <<77690630, 56189425, 0 - 1074>>, <<99756744, 42518955, 0 - 1074>>, <<128090195, 39966516, 0 - 1074>>,
      <<82235533, 25943857, 0 - 1073>>, <<105592515, 1560920, 0 - 1073>>, <<67791736, 36971864, 0 - 1072>>,
      <<87046312, 51860750, 0 - 1072>>, <<111769678, 1960065, 0 - 1072>>, <<71757553, 47127453, 0 - 1071>>,
      <<92138522, 53219301, 0 - 1071>>, <<118308205, 8208254, 0 - 1071>>, <<75955371, 12742501, 0 - 1070>>,
      <<97528627, 9513034, 0 - 1070>>, <<125229236, 7024665, 0 - 1070>>, <<80398761, 2375443, 0 - 1069>>,
      <<103234052, 42926427, 0 - 1069>>, <<132555147, 30668447, 0 - 1069>>, <<85102089, 15018079, 0 - 1068>>,
      <<109273245, 38692972, 0 - 1068>>, <<70154812, 22960542, 0 - 1067>>, <<90080562, 10084114, 0 - 1067>>,
      <<115665731, 23518973, 0 - 1067>>, <<74258869, 29989837, 0 - 1066>>, <<95350275, 52633149, 0 - 1066>>,
      <<122432177, 39944572, 0 - 1066>>, <<78603013, 62165980, 0 - 1065>>, <<100928267, 47626346, 0 - 1065>>,
      <<129594461, 100923, 0 - 1065>>, <<83201290, 59991274, 0 - 1064>>, <<106832572, 14029030, 0 - 1064>>,
      <<68587869, 1561863, 0 - 1063>>, <<88068567, 6867458, 0 - 1063>>, <<113082278, 38296718, 0 - 1063>>,
      <<72600259, 62468223, 0 - 1062>>, <<93220579, 627254, 0 - 1062>>, <<119697592, 54113170, 0 - 1062>>,
      <<76847375, 49650223, 0 - 1061>>, <<98673983, 44004300, 0 - 1061>>, <<126699902, 65751189, 0 - 1061>>,
      <<81342947, 57642971, 0 - 1060>>, <<104446412, 34842513, 0 - 1060>>, <<134111848, 23924155, 0 - 1060>>,
      <<86101510, 66059118, 0 - 1059>>, <<110556528, 34838485, 0 - 1059>>, <<70978696, 20110213, 0 - 1058>>,
      <<91138450, 6182786, 0 - 1058>>, <<117024086, 23878880, 0 - 1058>>, <<75130950, 41793317, 0 - 1057>>,
      <<96470050, 12049198, 0 - 1057>>, <<123869996, 25479908, 0 - 1057>>, <<79526111, 57597119, 0 - 1056>>,
      <<102113548, 61496102, 0 - 1056>>, <<131116392, 13206856, 0 - 1056>>, <<84178390, 4197197, 0 - 1055>>,
      <<108087192, 25243681, 0 - 1055>>, <<69393351, 7697626, 0 - 1054>>, <<89102826, 38951058, 0 - 1054>>,
      <<114410294, 1877318, 0 - 1054>>, <<73452862, 49077941, 0 - 1053>>, <<94315342, 45331263, 0 - 1053>>,
      <<121103297, 12008541, 0 - 1053>>, <<77749855, 54440367, 0 - 1052>>, <<99832791, 363702, 0 - 1052>>,
      <<128187841, 4686487, 0 - 1052>>, <<82298223, 1476251, 0 - 1051>>, <<105673010, 7280069, 0 - 1051>>,
      <<67843415, 28091463, 0 - 1050>>, <<87112669, 50491470, 0 - 1050>>, <<111854882, 5206528, 0 - 1050>>,
      <<71812255, 52620969, 0 - 1049>>, <<92208761, 44055833, 0 - 1049>>, <<118398393, 40817377, 0 - 1049>>,
      <<76013273, 23084175, 0 - 1048>>, <<97602974, 65720007, 0 - 1048>>, <<125324700, 41457477, 0 - 1048>>,
      <<80460050, 31272448, 0 - 1047>>, <<103312749, 55453192, 0 - 1047>>, <<132656196, 43278038, 0 - 1047>>,
      <<85166964, 5810612, 0 - 1046>>, <<109356546, 36863372, 0 - 1046>>, <<70208292, 41960031, 0 - 1045>>,
      <<90149232, 12957085, 0 - 1045>>, <<115753905, 28910088, 0 - 1045>>, <<74315478, 21944885, 0 - 1044>>,
      <<95422963, 1689833, 0 - 1044>>, <<122525509, 57712704, 0 - 1044>>, <<78662934, 28616793, 0 - 1043>>,
      <<101005207, 10386362, 0 - 1043>>, <<129693253, 13726026, 0 - 1043>>, <<83264716, 49913566, 0 - 1042>>,
      <<106914012, 41091170, 0 - 1042>>, <<68640154, 53494987, 0 - 1041>>, <<88135703, 24488391, 0 - 1041>>,
      <<113168483, 15984655, 0 - 1041>>, <<72655604, 28381563, 0 - 1040>>, <<93291642, 49918077, 0 - 1040>>,
      <<119788840, 30040586, 0 - 1040>>, <<76905957, 59402144, 0 - 1039>>, <<98749204, 41558080, 0 - 1039>>,
      <<126796488, 40858095, 0 - 1039>>, <<81404957, 4043287, 0 - 1038>>, <<104526033, 61051268, 0 - 1038>>,
      <<134214084, 16486245, 0 - 1038>>, <<86167147, 48617104, 0 - 1037>>, <<110640807, 51115665, 0 - 1037>>,
      <<71032804, 43247066, 0 - 1036>>, <<91207926, 39061728, 0 - 1036>>, <<117113295, 62730754, 0 - 1036>>,
      <<75188224, 20545593, 0 - 1035>>, <<96543591, 3001089, 0 - 1035>>, <<123964424, 48300071, 0 - 1035>>,
      <<79586736, 3530054, 0 - 1034>>, <<102191391, 61925339, 0 - 1034>>, <<131216344, 39964772, 0 - 1034>>,
      <<84242560, 51858602, 0 - 1033>>, <<108169589, 13359835, 0 - 1033>>, <<69446250, 61883994, 0 - 1032>>,
      <<89170751, 18636574, 0 - 1032>>, <<114497511, 4410137, 0 - 1032>>, <<73508857, 11940864, 0 - 1031>>,
      <<94387240, 64970424, 0 - 1031>>, <<121195616, 27790821, 0 - 1031>>, <<77809125, 62641506, 0 - 1030>>,
      <<99908895, 23406425, 0 - 1030>>, <<128285560, 65836006, 0 - 1030>>, <<82360960, 29987310, 0 - 1029>>,
      <<105753566, 37350358, 0 - 1029>>, <<67895133, 45768464, 0 - 1028>>, <<87179077, 21280499, 0 - 1028>>,
      <<111940151, 5271232, 0 - 1028>>, <<71866999, 38007798, 0 - 1027>>, <<92279054, 4314668, 0 - 1027>>,
      <<118488650, 56804644, 0 - 1027>>, <<76071219, 42811694, 0 - 1026>>, <<97677379, 33121961, 0 - 1026>>,
      <<125420237, 60745567, 0 - 1026>>, <<80521386, 41516018, 0 - 1025>>, <<103391507, 353661, 0 - 1025>>,
      <<132757322, 58009929, 0 - 1025>>, <<85231888, 27156605, 0 - 1024>>, <<109439911, 1602760, 0 - 1024>>,
      <<70261813, 45456548, 0 - 1023>>, <<90217954, 39211888, 0 - 1023>>, <<115842146, 48843506, 0 - 1023>>,
      <<74372130, 24232941, 0 - 1022>>, <<95495705, 45423650, 0 - 1022>>, <<122618913, 18362775, 0 - 1022>>,
      <<78722900, 40599739, 0 - 1021>>, <<101082205, 16923599, 0 - 1021>>, <<129792120, 48227643, 0 - 1021>>,
      <<83328190, 63369138, 0 - 1020>>, <<106995515, 6647588, 0 - 1020>>, <<68692480, 28816074, 0 - 1019>>,
      <<88202890, 54134427, 0 - 1019>>, <<113254753, 41680808, 0 - 1019>>, <<72710991, 7052830, 0 - 1018>>,
      <<93362760, 43721340, 0 - 1018>>, <<119880157, 43530738, 0 - 1018>>, <<76964584, 46218241, 0 - 1017>>,
      <<98824482, 62083350, 0 - 1017>>, <<126893147, 58174667, 0 - 1017>>, <<81467013, 35721279, 0 - 1016>>,
      <<104605715, 66914427, 0 - 1016>>, <<67158199, 2385696, 0 - 1015>>, <<86232834, 33596033, 0 - 1015>>,
      <<110725151, 16899591, 0 - 1015>>, <<71086954, 15902650, 0 - 1014>>, <<91277456, 2361238, 0 - 1014>>,
      <<117202573, 34881554, 0 - 1014>>, <<75245541, 43641082, 0 - 1013>>, <<96617187, 65191219, 0 - 1013>>,
      <<124058925, 2966658, 0 - 1013>>, <<79647406, 30994925, 0 - 1012>>, <<102269294, 18138732, 0 - 1012>>,
      <<131316373, 12735116, 0 - 1012>>, <<84306780, 26941352, 0 - 1011>>, <<108252048, 56007936, 0 - 1011>>,
      <<69499191, 3762376, 0 - 1010>>, <<89238727, 50682174, 0 - 1010>>, <<114584794, 39633451, 0 - 1010>>,
      <<73564894, 20812286, 0 - 1009>>, <<94459194, 4707739, 0 - 1009>>, <<121288006, 1739032, 0 - 1009>>,
      <<77868441, 15993686, 0 - 1008>>, <<99985057, 47503984, 0 - 1008>>, <<128383355, 25896548, 0 - 1008>>,
      <<82423745, 46812998, 0 - 1007>>, <<105834184, 27802143, 0 - 1007>>, <<67946891, 24909420, 0 - 1006>>,
      <<87245535, 33924550, 0 - 1006>>, <<112025485, 5477042, 0 - 1006>>, <<71921785, 5421260, 0 - 1005>>,
      <<92349400, 3843907, 0 - 1005>>, <<118578976, 59687307, 0 - 1005>>, <<76129210, 7074314, 0 - 1004>>,
      <<97751840, 48836110, 0 - 1004>>, <<125515848, 1503082, 0 - 1004>>, <<80582769, 35496375, 0 - 1003>>,
      <<103470324, 14914665, 0 - 1003>>, <<132858526, 11696062, 0 - 1003>>, <<85296862, 14477240, 0 - 1002>>,
      <<109523339, 3268646, 0 - 1002>>, <<70315375, 35535764, 0 - 1001>>, <<90286729, 24417713, 0 - 1001>>,
      <<115930455, 19649057, 0 - 1001>>, <<74428825, 39061691, 0 - 1000>>, <<95568503, 52451594, 0 - 1000>>,
      <<122712387, 59752368, 0 - 1000>>, <<78782912, 33342788, 0 - 999>>, <<101159262, 3129749, 0 - 999>>,
      <<129891063, 40349699, 0 - 999>>, <<83391713, 35722666, 0 - 998>>, <<107077079, 48092098, 0 - 998>>,
      <<68744845, 63781939, 0 - 997>>, <<88270129, 31314942, 0 - 997>>, <<113341089, 51638203, 0 - 997>>,
      <<72766420, 640399, 0 - 996>>, <<93433932, 51917314, 0 - 996>>, <<119971544, 31033317, 0 - 996>>,
      <<77023256, 12383154, 0 - 995>>, <<98899818, 41404779, 0 - 995>>, <<126989880, 54358776, 0 - 995>>,
      <<81529117, 20877510, 0 - 994>>, <<104685458, 55537137, 0 - 994>>, <<67209394, 63492206, 0 - 993>>,
      <<86298571, 23555667, 0 - 993>>, <<110809559, 2585925, 0 - 993>>, <<71141145, 7295995, 0 - 992>>,
      <<91347038, 33008551, 0 - 992>>, <<117291919, 10919220, 0 - 992>>, <<75302902, 46204533, 0 - 991>>,
      <<96690841, 161007, 0 - 991>>, <<124153497, 27379999, 0 - 991>>, <<79708123, 8138280, 0 - 990>>,
      <<102347256, 280937, 0 - 990>>, <<131416478, 2524787, 0 - 990>>, <<84371048, 66165761, 0 - 989>>,
      <<108334571, 22183642, 0 - 989>>, <<69552171, 36722398, 0 - 988>>, <<89306756, 3519118, 0 - 988>>,
      <<114672144, 43839764, 0 - 988>>, <<73620974, 10767063, 0 - 987>>, <<94531202, 1564889, 0 - 987>>,
      <<121380466, 4562384, 0 - 987>>, <<77927801, 51026106, 0 - 986>>, <<100061278, 8515501, 0 - 986>>,
      <<128481224, 22896808, 0 - 986>>, <<82486578, 54400003, 0 - 985>>, <<105914863, 48885902, 0 - 985>>,
      <<67998688, 34640152, 0 - 984>>, <<87312044, 23904582, 0 - 984>>, <<112110884, 9149355, 0 - 984>>,
      <<71976612, 24105167, 0 - 983>>, <<92419799, 45384877, 0 - 983>>, <<118669371, 52985299, 0 - 983>>,
      <<76187244, 52349605, 0 - 982>>, <<97826358, 48655283, 0 - 982>>, <<125611531, 1673598, 0 - 982>>,
      <<80644199, 15605559, 0 - 981>>, <<103549201, 35098784, 0 - 981>>, <<132959806, 42497977, 0 - 981>>,
      <<85361885, 37413361, 0 - 980>>, <<109606830, 45112154, 0 - 980>>, <<70368978, 14284943, 0 - 979>>,
      <<90355556, 38363522, 0 - 979>>, <<116018831, 11876917, 0 - 979>>, <<74485564, 1531635, 0 - 978>>,
      <<95641357, 25610550, 0 - 978>>, <<122805933, 51306386, 0 - 978>>, <<78842970, 9184554, 0 - 977>>,
      <<101236377, 39116514, 0 - 977>>, <<129990081, 61056781, 0 - 977>>, <<83455284, 36558437, 0 - 976>>,
      <<107158706, 34385478, 0 - 976>>, <<68797251, 26215497, 0 - 975>>, <<88337419, 25759037, 0 - 975>>,
      <<113427491, 49221289, 0 - 975>>, <<72821891, 11304290, 0 - 974>>, <<93505159, 10170655, 0 - 974>>,
      <<120063000, 63218459, 0 - 974>>, <<77081972, 27292127, 0 - 973>>, <<98975211, 49567004, 0 - 973>>,
      <<127086687, 33180025, 0 - 973>>, <<81591268, 29040978, 0 - 972>>, <<104765262, 30026912, 0 - 972>>,
      <<67260629, 59339987, 0 - 971>>, <<86364358, 21057717, 0 - 971>>, <<110894031, 11463970, 0 - 971>>,
      <<71195377, 19538875, 0 - 970>>, <<91416673, 66606374, 0 - 970>>, <<117381332, 61434343, 0 - 970>>,
      <<75360307, 30471258, 0 - 969>>, <<96764550, 12107246, 0 - 969>>, <<124248141, 58116639, 0 - 969>>,
      <<79768886, 4435064, 0 - 968>>, <<102425277, 11390060, 0 - 968>>, <<131516659, 13234788, 0 - 968>>,
      <<84435366, 37818597, 0 - 967>>, <<108417156, 49320515, 0 - 967>>, <<69605192, 28610940, 0 - 966>>,
      <<89374836, 14016142, 0 - 966>>, <<114759561, 20433038, 0 - 966>>, <<73677096, 51099447, 0 - 965>>,
      <<94603264, 58347967, 0 - 965>>, <<121472996, 39863972, 0 - 965>>, <<77987207, 35834269, 0 - 964>>,
      <<100137556, 43628953, 0 - 964>>, <<128579167, 60650662, 0 - 964>>, <<82549459, 55196883, 0 - 963>>,
      <<105995604, 36636777, 0 - 963>>, <<68050525, 9870288, 0 - 962>>, <<87378603, 60921254, 0 - 962>>,
      <<112196348, 19616102, 0 - 962>>, <<72031481, 29087228, 0 - 961>>, <<92490252, 64572131, 0 - 961>>,
      <<118759835, 40221237, 0 - 961>>, <<76245323, 46681404, 0 - 960>>, <<97900933, 35483386, 0 - 960>>,
      <<125707286, 64985805, 0 - 960>>, <<80705675, 51346301, 0 - 959>>, <<103628138, 63979802, 0 - 959>>,
      <<133061164, 20144764, 0 - 959>>, <<85426958, 31390008, 0 - 958>>, <<109690385, 63278019, 0 - 958>>,
      <<70422621, 50901800, 0 - 957>>, <<90424436, 16622593, 0 - 957>>, <<116107274, 28971024, 0 - 957>>,
      <<74542345, 48071555, 0 - 956>>, <<95714266, 34848427, 0 - 956>>, <<122899550, 63779100, 0 - 956>>,
      <<78903073, 37574300, 0 - 955>>, <<101313551, 60780163, 0 - 955>>, <<130089175, 47098689, 0 - 955>>,
      <<83518904, 1244898, 0 - 954>>, <<107240395, 35817524, 0 - 954>>, <<68849696, 52376673, 0 - 953>>,
      <<88404760, 40088944, 0 - 953>>, <<113513959, 37797080, 0 - 953>>, <<72877404, 41206168, 0 - 952>>,
      <<93576439, 55474726, 0 - 952>>, <<120154527, 9432420, 0 - 952>>, <<77140733, 26124421, 0 - 951>>,
      <<99050662, 22399169, 0 - 951>>, <<127183567, 65519757, 0 - 951>>, <<81653466, 62633662, 0 - 950>>,
      <<104845126, 60602498, 0 - 950>>, <<67311903, 59034487, 0 - 949>>, <<86430195, 28665847, 0 - 949>>,
      <<110978567, 46825537, 0 - 949>>, <<71249650, 54744674, 0 - 948>>, <<91486362, 38759483, 0 - 948>>,
      <<117470814, 55693576, 0 - 948>>, <<75417755, 65787139, 0 - 947>>, <<96838315, 36793457, 0 - 947>>,
      <<124342858, 31755932, 0 - 947>>, <<79829695, 22253159, 0 - 946>>, <<102503357, 54506522, 0 - 946>>,
      <<131616916, 48769099, 0 - 946>>, <<84499733, 11515128, 0 - 945>>, <<108499805, 6419113, 0 - 945>>,
      <<69658253, 48603045, 0 - 944>>, <<89442968, 17717411, 0 - 944>>, <<114847044, 39928692, 0 - 944>>,
      <<73733262, 9778762, 0 - 943>>, <<94675382, 43647475, 0 - 943>>, <<121565597, 44140770, 0 - 943>>,
      <<78046658, 39842034, 0 - 942>>, <<100213893, 21599123, 0 - 942>>, <<128677186, 8757163, 0 - 942>>,
      <<82612388, 51654059, 0 - 941>>, <<106076406, 61310038, 0 - 941>>, <<68102401, 19728724, 0 - 940>>,
      <<87445214, 13350611, 0 - 940>>, <<112281877, 40207754, 0 - 940>>, <<72086392, 22505648, 0 - 939>>,
      <<92560759, 64151176, 0 - 939>>, <<118850368, 24920420, 0 - 939>>, <<76303446, 59441862, 0 - 938>>,
      <<97975565, 12226540, 0 - 938>>, <<125803115, 60953507, 0 - 938>>, <<80767199, 10896565, 0 - 937>>,
      <<103707136, 37524984, 0 - 937>>, <<133162599, 15695113, 0 - 937>>, <<85492080, 66051886, 0 - 936>>,
      <<109774004, 61022324, 0 - 936>>, <<70476306, 13259054, 0 - 935>>, <<90493368, 28987974, 0 - 935>>,
      <<116195785, 7269075, 0 - 935>>, <<74599170, 46676458, 0 - 934>>, <<95787231, 15897571, 0 - 934>>,
      <<122993239, 33709832, 0 - 934>>, <<78963222, 53745342, 0 - 933>>, <<101390785, 4019251, 0 - 933>>,
      <<130188345, 2337028, 0 - 933>>, <<83582571, 66478977, 0 - 932>>, <<107322146, 55571591, 0 - 932>>,
      <<68902182, 10091495, 0 - 931>>, <<88472153, 9820034, 0 - 931>>, <<113600493, 20735158, 0 - 931>>,
      <<72932960, 25400483, 0 - 930>>, <<93647774, 56389549, 0 - 930>>, <<120246123, 7459631, 0 - 930>>,
      <<77199539, 11169903, 0 - 929>>, <<99126170, 29950387, 0 - 929>>, <<127280522, 20935598, 0 - 929>>,
      <<81715712, 56970523, 0 - 928>>, <<104925052, 16158422, 0 - 928>>, <<67363216, 64573814, 0 - 927>>,
      <<86496082, 48945678, 0 - 927>>, <<111063168, 44856082, 0 - 927>>, <<71303965, 47919525, 0 - 926>>,
      <<91556104, 19292450, 0 - 926>>, <<117560364, 64292822, 0 - 926>>, <<75475248, 20173170, 0 - 925>>,
      <<96912137, 9985354, 0 - 925>>, <<124437647, 19097771, 0 - 925>>, <<79890550, 63962253, 0 - 924>>,
      <<102581497, 65564198, 0 - 924>>, <<131717250, 45925810, 0 - 924>>, <<84564148, 56872531, 0 - 923>>,
      <<108582516, 30917906, 0 - 923>>, <<69711355, 31657606, 0 - 922>>, <<89511152, 17277976, 0 - 922>>,
      <<114934594, 38627017, 0 - 922>>, <<73789470, 23211454, 0 - 921>>, <<94747555, 27382648, 0 - 921>>,
      <<121658269, 21001369, 0 - 921>>, <<78106154, 65366161, 0 - 920>>, <<100290288, 12509653, 0 - 920>>,
      <<128775279, 5253730, 0 - 920>>, <<82675365, 46223822, 0 - 919>>, <<106157270, 58945622, 0 - 919>>,
      <<68154316, 66237031, 0 - 918>>, <<87511875, 18006129, 0 - 918>>, <<112367472, 7148455, 0 - 918>>,
      <<72141345, 6500261, 0 - 917>>, <<92631320, 46869613, 0 - 917>>, <<118940970, 10610840, 0 - 917>>,
      <<76361614, 25787129, 0 - 916>>, <<98050253, 48901943, 0 - 916>>, <<125899017, 60419944, 0 - 916>>,
      <<80828769, 30871594, 0 - 915>>, <<103786194, 25921666, 0 - 915>>, <<133264111, 33101862, 0 - 915>>,
      <<85557253, 9719038, 0 - 914>>, <<109857687, 41603633, 0 - 914>>, <<70530031, 37666472, 0 - 913>>,
      <<90562353, 11037034, 0 - 913>>, <<116284363, 17329125, 0 - 913>>, <<74656038, 66669632, 0 - 912>>,
      <<95860251, 38710222, 0 - 912>>, <<123086999, 31858413, 0 - 912>>, <<79023417, 60041649, 0 - 911>>,
      <<101468077, 6061221, 0 - 911>>, <<130287589, 64854075, 0 - 911>>, <<83646288, 33415171, 0 - 910>>,
      <<107403960, 29724595, 0 - 910>>, <<68954707, 35623001, 0 - 909>>, <<88539597, 4687402, 0 - 909>>,
      <<113687093, 1407674, 0 - 909>>, <<72988558, 33161063, 0 - 908>>, <<93719164, 15694991, 0 - 908>>,
      <<120337788, 60869512, 0 - 908>>, <<77258389, 51829050, 0 - 907>>, <<99201736, 8054284, 0 - 907>>,
      <<127377550, 37423508, 0 - 907>>, <<81778006, 14477234, 0 - 906>>, <<105005038, 34027035, 0 - 906>>,
      <<67414569, 10848731, 0 - 905>>, <<86562020, 17355920, 0 - 905>>, <<111147834, 8852437, 0 - 905>>,
      <<71358322, 1180034, 0 - 904>>, <<91625899, 10923053, 0 - 904>>, <<117649983, 23612913, 0 - 904>>,
      <<75532784, 30087509, 0 - 903>>, <<96986015, 1668569, 0 - 903>>, <<124532508, 23835999, 0 - 903>>,
      <<79951452, 64824977, 0 - 902>>, <<102659697, 47608149, 0 - 902>>, <<131817661, 8614856, 0 - 902>>,
      <<84628613, 42183308, 0 - 901>>, <<108665290, 58931223, 0 - 901>>, <<69764497, 46952819, 0 - 900>>,
      <<89579388, 15354912, 0 - 900>>, <<115022211, 19939763, 0 - 900>>, <<73845721, 26479050, 0 - 899>>,
      <<94819783, 12366002, 0 - 899>>, <<121751011, 41165970, 0 - 899>>, <<78165696, 47616311, 0 - 898>>,
      <<100366741, 19337591, 0 - 898>>, <<128873446, 53962965, 0 - 898>>, <<82738390, 41360331, 0 - 897>>,
      <<106238196, 32694734, 0 - 897>>, <<68206272, 17200594, 0 - 896>>, <<87578587, 10376673, 0 - 896>>,
      <<112453131, 57991480, 0 - 896>>, <<72196339, 50321394, 0 - 895>>, <<92701935, 15477136, 0 - 895>>,
      <<119031641, 823174, 0 - 895>>, <<76419826, 15092811, 0 - 894>>, <<98124999, 14202420, 0 - 894>>,
      <<125994993, 13474, 0 - 894>>, <<80890386, 46561871, 0 - 893>>, <<103865312, 32250667, 0 - 893>>,
      <<133365701, 9211997, 0 - 893>>, <<85622474, 66257762, 0 - 892>>, <<109941434, 8282992, 0 - 892>>,
      <<70583797, 59108823, 0 - 891>>, <<90631390, 32566914, 0 - 891>>, <<116373008, 62602992, 0 - 891>>,
      <<74712950, 43158325, 0 - 890>>, <<95933327, 39023060, 0 - 890>>, <<123180830, 61878593, 0 - 890>>,
      <<79083658, 58808975, 0 - 889>>, <<101545428, 2809216, 0 - 889>>, <<130386910, 37190733, 0 - 889>>,
      <<83710053, 38754188, 0 - 888>>, <<107485836, 28573613, 0 - 888>>, <<69007272, 63909201, 0 - 887>>,
      <<88607092, 27319285, 0 - 887>>, <<113773758, 50298211, 0 - 887>>, <<73044198, 66654522, 0 - 886>>,
      <<93790608, 3281904, 0 - 886>>, <<120429524, 39016478, 0 - 886>>, <<77317285, 16177496, 0 - 885>>,
      <<99277359, 26764458, 0 - 885>>, <<127474652, 51655736, 0 - 885>>, <<81840347, 4690181, 0 - 884>>,
      <<105085085, 50216476, 0 - 884>>, <<67465960, 34078121, 0 - 883>>, <<86628008, 3574969, 0 - 883>>,
      <<111232564, 9222810, 0 - 883>>, <<71412719, 50862151, 0 - 882>>, <<91695747, 16371141, 0 - 882>>,
      <<117739670, 4255068, 0 - 882>>, <<75590364, 30663429, 0 - 881>>, <<97059949, 14722064, 0 - 881>>,
      <<124627441, 49667277, 0 - 881>>, <<80012401, 27214633, 0 - 880>>, <<102737957, 3685754, 0 - 880>>,
      <<131918148, 7858013, 0 - 880>>, <<84693127, 37068461, 0 - 879>>, <<108748128, 26575853, 0 - 879>>,
      <<69817680, 29450729, 0 - 878>>, <<89647676, 14607320, 0 - 878>>, <<115109894, 54390148, 0 - 878>>,
      <<73902015, 21773605, 0 - 877>>, <<94892066, 1412195, 0 - 877>>, <<121843824, 41139804, 0 - 877>>,
      <<78225283, 56021642, 0 - 876>>, <<100443252, 45062252, 0 - 876>>, <<128971689, 24492659, 0 - 876>>,
      <<82801463, 39519617, 0 - 875>>, <<106319183, 52819843, 0 - 875>>, <<68258267, 8861796, 0 - 874>>,
      <<87645349, 60170816, 0 - 874>>, <<112538856, 61857193, 0 - 874>>, <<72251376, 21894417, 0 - 873>>,
      <<92772603, 39834402, 0 - 873>>, <<119122380, 66199656, 0 - 873>>, <<76478082, 29627375, 0 - 872>>,
      <<98199801, 45258469, 0 - 872>>, <<126091041, 17691900, 0 - 872>>, <<80952050, 60368568, 0 - 871>>,
      <<103944490, 59595157, 0 - 871>>, <<133467368, 15093248, 0 - 871>>, <<85687746, 36883110, 0 - 870>>,
      <<110025244, 31432800, 0 - 870>>, <<70637605, 12572475, 0 - 869>>, <<90700480, 29159081, 0 - 869>>,
      <<116461722, 12327398, 0 - 869>>, <<74769905, 45469202, 0 - 868>>, <<96006459, 19683798, 0 - 868>>,
      <<123274733, 60318045, 0 - 868>>, <<79143945, 52394862, 0 - 867>>, <<101622837, 64386405, 0 - 867>>,
      <<130486306, 57435172, 0 - 867>>, <<83773867, 17872039, 0 - 866>>, <<107567774, 55309284, 0 - 866>>,
      <<69059878, 29889661, 0 - 865>>, <<88674639, 13237057, 0 - 865>>, <<113860490, 36566336, 0 - 865>>,
      <<73099881, 60940261, 0 - 864>>, <<93862106, 21934395, 0 - 864>>, <<120521330, 12584257, 0 - 864>>,
      <<77376225, 40728078, 0 - 863>>, <<99353040, 21919022, 0 - 863>>, <<127571829, 307412, 0 - 863>>,
      <<81902735, 30038738, 0 - 862>>, <<105165194, 737255, 0 - 862>>, <<67517391, 2046935, 0 - 861>>,
      <<86694046, 10174317, 0 - 861>>, <<111317358, 49269061, 0 - 861>>, <<71467158, 64867984, 0 - 860>>,
      <<91765648, 38358639, 0 - 860>>, <<117829425, 9714308, 0 - 860>>, <<75647988, 24144776, 0 - 859>>,
      <<97133939, 52026993, 0 - 859>>, <<124722447, 33182217, 0 - 859>>, <<80073396, 20615195, 0 - 858>>,
      <<102816276, 3955581, 0 - 858>>, <<132018711, 47571180, 0 - 858>>, <<84757690, 44042046, 0 - 857>>,
      <<108831029, 4188772, 0 - 857>>, <<69870903, 48332690, 0 - 856>>, <<89716016, 17696328, 0 - 856>>,
      <<115197645, 11177400, 0 - 856>>, <<73958352, 11288850, 0 - 855>>, <<94964403, 64446893, 0 - 855>>,
      <<121936708, 24539717, 0 - 855>>, <<78284916, 25795352, 0 - 854>>, <<100519822, 25556359, 0 - 854>>,
      <<129070006, 54888972, 0 - 854>>, <<82864584, 43159582, 0 - 853>>, <<106400232, 55368095, 0 - 853>>,
      <<68310301, 43246836, 0 - 852>>, <<87712163, 35772518, 0 - 852>>, <<112624647, 22086232, 0 - 852>>,
      <<72306454, 57581789, 0 - 851>>, <<92843325, 55586435, 0 - 851>>, <<119213190, 8949757, 0 - 851>>,
      <<76536383, 4552155, 0 - 850>>, <<98274661, 10767356, 0 - 850>>, <<126187162, 50089278, 0 - 850>>,
      <<81013762, 7585826, 0 - 849>>, <<104023729, 43931790, 0 - 849>>, <<133569112, 54707500, 0 - 849>>,
      <<85753067, 58356388, 0 - 848>>, <<110109118, 47210214, 0 - 848>>, <<70691453, 34371982, 0 - 847>>,
      <<90769623, 3505913, 0 - 847>>, <<116550503, 4177156, 0 - 847>>, <<74826904, 8712890, 0 - 846>>,
      <<96079646, 50651183, 0 - 846>>, <<123368708, 30836092, 0 - 846>>, <<79204278, 43148642, 0 - 845>>,
      <<101700306, 59591661, 0 - 845>>, <<130585778, 62351923, 0 - 845>>, <<83837729, 40364356, 0 - 844>>,
      <<107649775, 46015818, 0 - 844>>, <<69112524, 2723240, 0 - 843>>, <<88742237, 32181825, 0 - 843>>,
      <<113947288, 30700781, 0 - 843>>, <<73155607, 18188198, 0 - 842>>, <<93933659, 7329831, 0 - 842>>,
      <<120613205, 52259305, 0 - 842>>, <<77435210, 60668789, 0 - 841>>, <<99428778, 63576066, 0 - 841>>,
      <<127669079, 21383144, 0 - 841>>, <<81965171, 25845265, 0 - 840>>, <<105245363, 22928856, 0 - 840>>,
      <<67568860, 50977107, 0 - 839>>, <<86760134, 39727414, 0 - 839>>, <<111402217, 65186703, 0 - 839>>,
      <<71521639, 45318985, 0 - 838>>, <<91835603, 12500680, 0 - 838>>, <<117919248, 43488314, 0 - 838>>,
      <<75705656, 12777107, 0 - 837>>, <<97207986, 49357846, 0 - 837>>, <<124817525, 45191980, 0 - 837>>,
      <<80134437, 47403587, 0 - 836>>, <<102894654, 51469657, 0 - 836>>, <<132119351, 64564372, 0 - 836>>,
      <<84822302, 65620035, 0 - 835>>, <<108913992, 62109415, 0 - 835>>, <<69924167, 38563906, 0 - 834>>,
      <<89784408, 27285091, 0 - 834>>, <<115285462, 27938806, 0 - 834>>, <<74014731, 64329050, 0 - 833>>,
      <<95036797, 2962456, 0 - 833>>, <<122029662, 62094178, 0 - 833>>, <<78344594, 26370137, 0 - 832>>,
      <<100596450, 30912634, 0 - 832>>, <<129168399, 14765528, 0 - 832>>, <<82927753, 54740003, 0 - 831>>,
      <<106481343, 43497905, 0 - 831>>, <<68362375, 55274591, 0 - 830>>, <<87779028, 6894319, 0 - 830>>,
      <<112710503, 9130642, 0 - 830>>, <<72361575, 25312148, 0 - 829>>, <<92914101, 65489223, 0 - 829>>,
      <<119304068, 33938829, 0 - 829>>, <<76594728, 9247944, 0 - 828>>, <<98349577, 47864020, 0 - 828>>,
      <<126283357, 33842523, 0 - 828>>, <<81075520, 24836209, 0 - 827>>, <<104103028, 55457300, 0 - 827>>,
      <<133670934, 64910793, 0 - 827>>, <<85818438, 66114253, 0 - 826>>, <<110193056, 58883744, 0 - 826>>,
      <<70745342, 59496906, 0 - 825>>, <<90838818, 25410706, 0 - 825>>, <<116639351, 41611984, 0 - 825>>,
      <<74883946, 2219437, 0 - 824>>, <<96152890, 559544, 0 - 824>>, <<123462754, 44203709, 0 - 824>>,
      <<79264657, 33421438, 0 - 823>>, <<101777834, 58552750, 0 - 823>>, <<130685326, 55817331, 0 - 823>>,
      <<83901640, 41610937, 0 - 822>>, <<107731839, 3888722, 0 - 822>>, <<69165209, 51570358, 0 - 821>>,
      <<88809887, 19678977, 0 - 821>>, <<114034152, 36083990, 0 - 821>>, <<73211375, 7678770, 0 - 820>>,
      <<94005266, 29365430, 0 - 820>>, <<120705151, 27404210, 0 - 820>>, <<77494241, 11189375, 0 - 819>>,
      <<99504575, 20469333, 0 - 819>>, <<127766403, 51563833, 0 - 819>>, <<82027654, 61651704, 0 - 818>>,
      <<105325593, 52806548, 0 - 818>>, <<67620369, 48656643, 0 - 817>>, <<86826273, 27700810, 0 - 817>>,
      <<111487141, 60282632, 0 - 817>>, <<71576161, 61447087, 0 - 816>>, <<91905611, 8632203, 0 - 816>>,
      <<118009140, 41968573, 0 - 816>>, <<75763367, 65916556, 0 - 815>>, <<97282090, 9600172, 0 - 815>>,
      <<124912676, 22292824, 0 - 815>>, <<80195525, 42849678, 0 - 814>>, <<102973093, 15064612, 0 - 814>>,
      <<132220068, 62759461, 0 - 814>>, <<84886964, 37211454, 0 - 813>>, <<108997020, 2244224, 0 - 813>>,
      <<69977472, 2220025, 0 - 812>>, <<89852852, 46038797, 0 - 812>>, <<115373346, 40987671, 0 - 812>>,
      <<74071154, 48873551, 0 - 811>>, <<95109245, 21106575, 0 - 811>>, <<122122688, 23207823, 0 - 811>>,
      <<78404317, 60071601, 0 - 810>>, <<100673136, 64117214, 0 - 810>>, <<129266866, 42174327, 0 - 810>>,
      <<82990971, 9613668, 0 - 809>>, <<106562516, 20370097, 0 - 809>>, <<68414489, 46974351, 0 - 808>>,
      <<87845943, 43250739, 0 - 808>>, <<112796424, 26336155, 0 - 808>>, <<72416737, 61451224, 0 - 807>>,
      <<92984932, 5191992, 0 - 807>>, <<119395016, 10490601, 0 - 807>>, <<76653117, 45988401, 0 - 806>>,
      <<98424551, 25250172, 0 - 806>>, <<126379625, 39809130, 0 - 806>>, <<81137325, 47417522, 0 - 805>>,
      <<104182388, 30153048, 0 - 805>>, <<133772834, 49671055, 0 - 805>>, <<85883859, 62704164, 0 - 804>>,
      <<110277059, 2615531, 0 - 804>>, <<70799273, 22938408, 0 - 803>>, <<90908066, 30461083, 0 - 803>>,
      <<116728267, 60985375, 0 - 803>>, <<74941031, 28211720, 0 - 802>>, <<96226189, 6480840, 0 - 802>>,
      <<123556872, 36976939, 0 - 802>>, <<79325082, 25566164, 0 - 801>>, <<101855421, 64290875, 0 - 801>>,
      <<130784950, 41710699, 0 - 801>>, <<83965600, 24102344, 0 - 800>>, <<107813964, 66343668, 0 - 800>>,
      <<69217935, 44266407, 0 - 799>>, <<88877588, 45473635, 0 - 799>>, <<114121082, 56100985, 0 - 799>>,
      <<73267185, 31585203, 0 - 798>>, <<94076928, 23722807, 0 - 798>>, <<120797167, 8710883, 0 - 798>>,
      <<77553316, 28807926, 0 - 797>>, <<99580429, 29770276, 0 - 797>>, <<127863802, 27533272, 0 - 797>>,
      <<82090186, 5675259, 0 - 796>>, <<105405885, 26387984, 0 - 796>>, <<67671917, 64201669, 0 - 795>>,
      <<86892462, 43780746, 0 - 795>>, <<111572130, 37866265, 0 - 795>>, <<71630725, 48268114, 0 - 794>>,
      <<91975672, 29481361, 0 - 794>>, <<118099101, 8658102, 0 - 794>>, <<75821123, 51594375, 0 - 793>>,
      <<97356250, 2750585, 0 - 793>>, <<125007899, 35301555, 0 - 793>>, <<80256660, 9334016, 0 - 792>>,
      <<103051591, 32014854, 0 - 792>>, <<132320862, 46081305, 0 - 792>>, <<84951675, 28444977, 0 - 791>>,
      <<109080110, 29155292, 0 - 791>>, <<70030817, 8487143, 0 - 790>>, <<89921349, 9515800, 0 - 790>>,
      <<115461297, 53748770, 0 - 790>>, <<74127620, 34229968, 0 - 789>>, <<95181748, 54593639, 0 - 789>>,
      <<122215784, 45723507, 0 - 789>>, <<78464086, 62118258, 0 - 788>>, <<100749881, 61049644, 0 - 788>>,
      <<129365409, 6734836, 0 - 788>>, <<83054236, 44461833, 0 - 787>>, <<106643750, 56256767, 0 - 787>>,
      <<68466643, 20376952, 0 - 786>>, <<87912910, 13231695, 0 - 786>>, <<112882411, 9942189, 0 - 786>>,
      <<72471942, 33930928, 0 - 785>>, <<93055816, 11672662, 0 - 785>>, <<119486033, 9258093, 0 - 785>>,
      <<76711551, 49940056, 0 - 784>>, <<98499582, 12956339, 0 - 784>>, <<126475967, 4631724, 0 - 784>>,
      <<81199178, 10629407, 0 - 783>>, <<104261808, 38220479, 0 - 783>>, <<133874812, 12959237, 0 - 783>>,
      <<85949330, 50675521, 0 - 782>>, <<110361125, 15896798, 0 - 782>>, <<70853244, 61015843, 0 - 781>>,
      <<90977367, 21355584, 0 - 781>>, <<116817251, 65762325, 0 - 781>>, <<74998160, 21805446, 0 - 780>>,
      <<96299544, 4162612, 0 - 780>>, <<123651062, 12823478, 0 - 780>>, <<79385553, 21937531, 0 - 779>>,
      <<101933068, 12720678, 0 - 779>>, <<130884650, 23914284, 0 - 779>>, <<84029608, 57439900, 0 - 778>>,
      <<107896153, 35254445, 0 - 778>>, <<69270701, 49974936, 0 - 777>>, <<88945341, 45095203, 0 - 777>>,
      <<114208079, 27030507, 0 - 777>>, <<73323038, 24973520, 0 - 776>>, <<94148644, 60303434, 0 - 776>>,
      <<120889252, 66873967, 0 - 776>>, <<77612436, 48717693, 0 - 775>>, <<99656341, 27326003, 0 - 775>>,
      <<127961275, 20195870, 0 - 775>>, <<82152764, 61679312, 0 - 774>>, <<105486238, 13910925, 0 - 774>>,
      <<67723505, 32512115, 0 - 773>>, <<86958702, 23437698, 0 - 773>>, <<111657184, 1249541, 0 - 773>>,
      <<71685331, 7908373, 0 - 772>>, <<92045787, 10669523, 0 - 772>>, <<118189130, 14171453, 0 - 772>>,
      <<75878923, 39170126, 0 - 771>>, <<97430466, 31699037, 0 - 771>>, <<125103195, 20820082, 0 - 771>>,
      <<80317841, 16347826, 0 - 770>>, <<103130149, 38270534, 0 - 770>>, <<132421733, 18457755, 0 - 770>>,
      <<85016435, 41842334, 0 - 769>>, <<109163264, 11862856, 0 - 769>>, <<70084202, 59444076, 0 - 768>>,
      <<89989897, 54603078, 0 - 768>>, <<115549316, 2540627, 0 - 768>>, <<74184129, 22598726, 0 - 767>>,
      <<95254307, 39140185, 0 - 767>>, <<122308951, 66160253, 0 - 767>>, <<78523901, 34839256, 0 - 766>>,
      <<100826685, 24700613, 0 - 766>>, <<129464026, 46504905, 0 - 766>>, <<83117550, 27532176, 0 - 765>>,
      <<106725047, 20105832, 0 - 765>>, <<68518836, 44623641, 0 - 764>>, <<87979927, 53664549, 0 - 764>>,
      <<112968463, 30408443, 0 - 764>>, <<72527189, 12011404, 0 - 763>>, <<93126754, 20584665, 0 - 763>>,
      <<119577119, 33788162, 0 - 763>>, <<76770030, 23380038, 0 - 762>>, <<98574670, 13906410, 0 - 762>>,
      <<126572381, 66282384, 0 - 762>>, <<81261077, 51099929, 0 - 761>>, <<104341289, 15645666, 0 - 761>>,
      <<133976867, 25858182, 0 - 761>>, <<86014851, 32579671, 0 - 760>>, <<110445255, 34894673, 0 - 760>>,
      <<70907257, 41614711, 0 - 759>>, <<91046721, 794810, 0 - 759>>, <<116906303, 59410471, 0 - 759>>,
      <<75055332, 52335747, 0 - 758>>, <<96372954, 63572308, 0 - 758>>, <<123745323, 42522685, 0 - 758>>,
      <<79446070, 24892042, 0 - 757>>, <<102010773, 41085698, 0 - 757>>, <<130984426, 6313305, 0 - 757>>,
      <<84093666, 9900237, 0 - 756>>, <<107978404, 48041601, 0 - 756>>, <<69323508, 3643334, 0 - 755>>,
      <<89013146, 21183960, 0 - 755>>, <<114295142, 19371606, 0 - 755>>, <<73378933, 57129126, 0 - 754>>,
      <<94220416, 7684318, 0 - 754>>, <<120981409, 4155382, 0 - 754>>, <<77671602, 6113683, 0 - 753>>,
      <<99732311, 16094744, 0 - 753>>, <<128058822, 33350067, 0 - 753>>, <<82215391, 30775918, 0 - 752>>,
      <<105566652, 18506657, 0 - 752>>, <<67775132, 22707168, 0 - 751>>, <<87024992, 36361838, 0 - 751>>,
      <<111742302, 20855790, 0 - 751>>, <<71739978, 9604657, 0 - 750>>, <<92115955, 22037867, 0 - 750>>,
      <<118279227, 62016986, 0 - 750>>, <<75936767, 30896219, 0 - 749>>, <<97504739, 32228818, 0 - 749>>,
      <<125198563, 49670867, 0 - 749>>, <<80379068, 66275287, 0 - 748>>, <<103208767, 36892998, 0 - 748>>,
      <<132522680, 50928520, 0 - 748>>, <<85081245, 12818314, 0 - 747>>, <<109246481, 20716214, 0 - 747>>,
      <<70137629, 22953496, 0 - 746>>, <<90058498, 49754192, 0 - 746>>, <<115637401, 25010968, 0 - 746>>,
      <<74240681, 16181928, 0 - 745>>, <<95326921, 44682634, 0 - 745>>, <<122402190, 21039852, 0 - 745>>,
      <<78583761, 47674388, 0 - 744>>, <<100903547, 25171954, 0 - 744>>, <<129562719, 31109853, 0 - 744>>,
      <<83180912, 28400847, 0 - 743>>, <<106806405, 49303077, 0 - 743>>, <<68571069, 54639487, 0 - 742>>,
      <<88046996, 32943194, 0 - 742>>, <<113054581, 23979440, 0 - 742>>, <<72582477, 64954432, 0 - 741>>,
      <<93197746, 34692402, 0 - 741>>, <<119668275, 20521508, 0 - 741>>, <<76828553, 35696074, 0 - 740>>,
      <<98649815, 31026507, 0 - 740>>, <<126668870, 27191729, 0 - 740>>, <<81323024, 37023540, 0 - 739>>,
      <<104420830, 32634771, 0 - 739>>, <<134079000, 25236035, 0 - 739>>, <<86080422, 10969903, 0 - 738>>,
      <<110529449, 62887645, 0 - 738>>, <<70961311, 33948708, 0 - 737>>, <<91116127, 38590280, 0 - 737>>,
      <<116995423, 45400095, 0 - 737>>, <<75112548, 54921723, 0 - 736>>, <<96446421, 53352964, 0 - 736>>,
      <<123839656, 62638988, 0 - 736>>, <<79506633, 36787997, 0 - 735>>, <<102088538, 18196324, 0 - 735>>,
      <<131084277, 59904805, 0 - 735>>, <<84157772, 18197343, 0 - 734>>, <<108060718, 40801536, 0 - 734>>,
      <<69376354, 41547147, 0 - 733>>, <<89081002, 43491063, 0 - 733>>, <<114382271, 36517052, 0 - 733>>,
      <<73434871, 63121358, 0 - 732>>, <<94292242, 2880054, 0 - 732>>, <<121073635, 25472966, 0 - 732>>,
      <<77730812, 37519249, 0 - 731>>, <<99808338, 66145846, 0 - 731>>, <<128156444, 3688335, 0 - 731>>,
      <<82278065, 49623309, 0 - 730>>, <<105647127, 43308850, 0 - 730>>, <<67826798, 36798687, 0 - 729>>,
      <<87091333, 18027577, 0 - 729>>, <<111827485, 32893137, 0 - 729>>, <<71794666, 55486515, 0 - 728>>,
      <<92186176, 66320790, 0 - 728>>, <<118369394, 21488010, 0 - 728>>, <<75994655, 29026786, 0 - 727>>,
      <<97579069, 7234288, 0 - 727>>, <<125294004, 58461477, 0 - 727>>, <<80440343, 27284667, 0 - 726>>,
      <<103287445, 30945924, 0 - 726>>, <<132623705, 13209715, 0 - 726>>, <<85146104, 11007356, 0 - 725>>,
      <<109329761, 58958270, 0 - 725>>, <<70191096, 35315116, 0 - 724>>, <<90127151, 64751327, 0 - 724>>,
      <<115725553, 57483544, 0 - 724>>, <<74297276, 17183357, 0 - 723>>, <<95399591, 6941834, 0 - 723>>,
      <<122495499, 48213456, 0 - 723>>, <<78643667, 35847492, 0 - 722>>, <<100980467, 65458918, 0 - 722>>,
      <<129661487, 31504522, 0 - 722>>, <<83244322, 49537011, 0 - 721>>, <<106887826, 12801246, 0 - 721>>,
      <<68623342, 52459974, 0 - 720>>, <<88114116, 20790106, 0 - 720>>, <<113140764, 61119992, 0 - 720>>,
      <<72637808, 60696845, 0 - 719>>, <<93268792, 56762382, 0 - 719>>, <<119759500, 40119263, 0 - 719>>,
      <<76887121, 22059901, 0 - 718>>, <<98725018, 136113, 0 - 718>>, <<126765432, 25337562, 0 - 718>>,
      <<81385018, 37923119, 0 - 717>>, <<104500432, 25178588, 0 - 717>>, <<134181211, 15072835, 0 - 717>>,
      <<86146042, 55510318, 0 - 716>>, <<110613708, 36047840, 0 - 716>>, <<71015406, 40124269, 0 - 715>>,
      <<91185587, 3228985, 0 - 715>>, <<117084611, 27204121, 0 - 715>>, <<75169808, 31793037, 0 - 714>>,
      <<96519944, 43476386, 0 - 714>>, <<123934062, 9739616, 0 - 714>>, <<79567242, 59985494, 0 - 713>>,
      <<102166362, 14191847, 0 - 713>>, <<131184205, 54362201, 0 - 713>>, <<84221927, 17720519, 0 - 712>>,
      <<108143095, 16741954, 0 - 712>>, <<69429241, 31528036, 0 - 711>>, <<89148910, 47551955, 0 - 711>>,
      <<114469467, 14753337, 0 - 711>>, <<73490852, 45130080, 0 - 710>>, <<94364122, 48689639, 0 - 710>>,
      <<121165932, 202978, 0 - 710>>, <<77790068, 11024048, 0 - 709>>, <<99884424, 46224319, 0 - 709>>,
      <<128254140, 2123771, 0 - 709>>, <<82340787, 53554989, 0 - 708>>, <<105727664, 24344702, 0 - 708>>,
      <<67878504, 9691196, 0 - 707>>, <<87157724, 38129023, 0 - 707>>, <<111912733, 40681103, 0 - 707>>,
      <<71849397, 13467394, 0 - 706>>, <<92256452, 12037044, 0 - 706>>, <<118459629, 30315963, 0 - 706>>,
      <<76052587, 35817672, 0 - 705>>, <<97653455, 26720875, 0 - 705>>, <<125389518, 50911177, 0 - 705>>,
      <<80501664, 35981509, 0 - 704>>, <<103366183, 23495328, 0 - 704>>, <<132724806, 43455908, 0 - 704>>,
      <<85211012, 38936964, 0 - 703>>, <<109413105, 62725538, 0 - 703>>, <<70244604, 31503645, 0 - 702>>,
      <<90195857, 35160980, 0 - 702>>, <<115813773, 36284722, 0 - 702>>, <<74353914, 27808475, 0 - 701>>,
      <<95472315, 62967382, 0 - 701>>, <<122588880, 17099527, 0 - 701>>, <<78703619, 1693050, 0 - 700>>,
      <<101057447, 14341310, 0 - 700>>, <<129760330, 51537820, 0 - 700>>, <<83307781, 26302855, 0 - 699>>,
      <<106969308, 47990957, 0 - 699>>, <<68675655, 40122138, 0 - 698>>, <<88181287, 19820891, 0 - 698>>,
      <<113227014, 10970872, 0 - 698>>, <<72693182, 1394844, 0 - 697>>, <<93339893, 22454360, 0 - 697>>,
      <<119850795, 29027537, 0 - 697>>, <<76945733, 51862723, 0 - 696>>, <<98800277, 58383540, 0 - 696>>,
      <<126862067, 64482825, 0 - 696>>, <<81447059, 56214524, 0 - 695>>, <<104580094, 63488002, 0 - 695>>,
      <<67141749, 66784693, 0 - 694>>, <<86211713, 34540372, 0 - 694>>, <<110698031, 24767609, 0 - 694>>,
      <<71069542, 62249438, 0 - 693>>, <<91255099, 31635433, 0 - 693>>, <<117173867, 8298125, 0 - 693>>,
      <<75227111, 52289915, 0 - 692>>, <<96593523, 36807702, 0 - 692>>, <<124028539, 21721192, 0 - 692>>,
      <<79627898, 29737567, 0 - 691>>, <<102244245, 32105003, 0 - 691>>, <<131284209, 60688467, 0 - 691>>,
      <<84286131, 10969832, 0 - 690>>, <<108225534, 46181872, 0 - 690>>, <<69482168, 42755822, 0 - 689>>,
      <<89216870, 36012957, 0 - 689>>, <<114556729, 24587271, 0 - 689>>, <<73546876, 5336815, 0 - 688>>,
      <<94436058, 13696479, 0 - 688>>, <<121258298, 66159870, 0 - 688>>, <<77849368, 63154951, 0 - 687>>,
      <<99960568, 26404027, 0 - 687>>, <<128351910, 32463508, 0 - 687>>, <<82403557, 45015185, 0 - 686>>,
      <<105808262, 31861525, 0 - 686>>, <<67930249, 10508485, 0 - 685>>, <<87224166, 32144529, 0 - 685>>,
      <<111998046, 47541739, 0 - 685>>, <<71904169, 19897820, 0 - 684>>, <<92326780, 63251790, 0 - 684>>,
      <<118549933, 24908371, 0 - 684>>, <<76110563, 53526446, 0 - 683>>, <<97727898, 26478489, 0 - 683>>,
      <<125485105, 30742065, 0 - 683>>, <<80563032, 27646582, 0 - 682>>, <<103444981, 17609560, 0 - 682>>,
      <<132825985, 11389212, 0 - 682>>, <<85275970, 32027700, 0 - 681>>, <<109496513, 35265868, 0 - 681>>,
      <<70298153, 13604246, 0 - 680>>, <<90264615, 30769416, 0 - 680>>, <<115902060, 31961217, 0 - 680>>,
      <<74410595, 50264425, 0 - 679>>, <<95545096, 14266715, 0 - 679>>, <<122682331, 65554758, 0 - 679>>,
      <<78763616, 14656187, 0 - 678>>, <<101134485, 9036676, 0 - 678>>, <<129859249, 27952729, 0 - 678>>,
      <<83371288, 28280174, 0 - 677>>, <<107050853, 23829791, 0 - 677>>, <<68728008, 19664566, 0 - 676>>,
      <<88248509, 32653147, 0 - 676>>, <<113313329, 11110873, 0 - 676>>, <<72748597, 23424003, 0 - 675>>,
      <<93411048, 1647928, 0 - 675>>, <<119942159, 57912882, 0 - 675>>, <<77004390, 60279756, 0 - 674>>,
      <<98875595, 7375012, 0 - 674>>, <<126958777, 14175602, 0 - 674>>, <<81509148, 27206588, 0 - 673>>,
      <<104659818, 16449672, 0 - 673>>, <<67192933, 24583738, 0 - 672>>, <<86277434, 17728062, 0 - 672>>,
      <<110782418, 32332946, 0 - 672>>, <<71123720, 35324999, 0 - 671>>, <<91324664, 59409601, 0 - 671>>,
      <<117263190, 59269193, 0 - 671>>, <<75284458, 51536557, 0 - 670>>, <<96667158, 36214220, 0 - 670>>,
      <<124123088, 35156551, 0 - 670>>, <<79688600, 15516777, 0 - 669>>, <<102322188, 7861974, 0 - 669>>,
      <<131384290, 15671817, 0 - 669>>, <<84350384, 447257, 0 - 668>>, <<108308036, 65225023, 0 - 668>>,
      <<69535136, 10184170, 0 - 667>>, <<89284882, 11522409, 0 - 667>>, <<114644058, 2310524, 0 - 667>>,
      <<73602942, 13033613, 0 - 666>>, <<94508048, 34921568, 0 - 666>>, <<121350736, 25616516, 0 - 666>>,
      <<77908714, 62005133, 0 - 665>>, <<100036770, 9652228, 0 - 665>>, <<128449755, 31408718, 0 - 665>>,
      <<82466375, 26449988, 0 - 664>>, <<105888922, 1891301, 0 - 664>>, <<67982033, 41267016, 0 - 663>>,
      <<87290659, 2663282, 0 - 663>>, <<112083424, 56799625, 0 - 663>>, <<71958983, 9803354, 0 - 662>>,
      <<92397163, 21379091, 0 - 662>>, <<118640306, 8784306, 0 - 662>>, <<76168584, 17303531, 0 - 661>>,
      <<97802398, 9408114, 0 - 661>>, <<125580765, 1679077, 0 - 661>>, <<80624447, 4671345, 0 - 660>>,
      <<103523839, 16359313, 0 - 660>>, <<132927240, 55170203, 0 - 660>>, <<85340977, 59919787, 0 - 659>>,
      <<109579984, 46938449, 0 - 659>>, <<70351742, 50812531, 0 - 658>>, <<90333425, 54256075, 0 - 658>>,
      <<115990414, 47953498, 0 - 658>>, <<74467320, 19651168, 0 - 657>>, <<95617931, 65002613, 0 - 657>>,
      <<122775854, 63003160, 0 - 657>>, <<78823659, 9966081, 0 - 656>>, <<101211581, 52547123, 0 - 656>>,
      <<129958243, 31712890, 0 - 656>>, <<83434843, 57943786, 0 - 655>>, <<107132460, 10604339, 0 - 655>>,
      <<68780400, 60236265, 0 - 654>>, <<88315782, 61906470, 0 - 654>>, <<113399709, 64903620, 0 - 654>>,
      <<72804054, 61834949, 0 - 653>>, <<93482256, 64224790, 0 - 653>>, <<120033593, 63226831, 0 - 653>>,
      <<77063092, 49596820, 0 - 652>>, <<98950969, 51372172, 0 - 652>>, <<127055560, 12402301, 0 - 652>>,
      <<81571284, 20427717, 0 - 651>>, <<104739602, 21388078, 0 - 651>>, <<67244155, 50700288, 0 - 650>>,
      <<86343205, 7634473, 0 - 650>>, <<110866869, 62032349, 0 - 650>>, <<71177939, 28571073, 0 - 649>>,
      <<91394283, 22153535, 0 - 649>>, <<117352582, 49380472, 0 - 649>>, <<75341849, 31767729, 0 - 648>>,
      <<96740849, 44565439, 0 - 648>>, <<124217709, 53730198, 0 - 648>>, <<79749348, 19688625, 0 - 647>>,
      <<102400190, 11608988, 0 - 647>>, <<131484446, 57430029, 0 - 647>>, <<84414685, 55765539, 0 - 646>>,
      <<108390602, 9977591, 0 - 646>>, <<69588144, 2986045, 0 - 645>>, <<89352945, 43839534, 0 - 645>>,
      <<114731453, 18435090, 0 - 645>>, <<73659051, 3296463, 0 - 644>>, <<94580093, 48061448, 0 - 644>>,
      <<121443244, 16392856, 0 - 644>>, <<77968106, 9887259, 0 - 643>>, <<100113029, 66047307, 0 - 643>>,
      <<128547675, 2772341, 0 - 643>>, <<82529241, 307354, 0 - 642>>, <<105969643, 4686131, 0 - 642>>,
      <<68033857, 36875923, 0 - 641>>, <<87357202, 19385306, 0 - 641>>, <<112168868, 4673017, 0 - 641>>,
      <<72013838, 52428911, 0 - 640>>, <<92467599, 23379419, 0 - 640>>, <<118730747, 52574385, 0 - 640>>,
      <<76226648, 63627666, 0 - 639>>, <<97876954, 45521809, 0 - 639>>, <<125676497, 34558855, 0 - 639>>,
      <<80685908, 36557939, 0 - 638>>, <<103602757, 22817617, 0 - 638>>, <<133028573, 44527001, 0 - 638>>,
      <<85406034, 58037647, 0 - 637>>, <<109663519, 33887223, 0 - 637>>, <<70405373, 10999116, 0 - 636>>,
      <<90402288, 41193576, 0 - 636>>, <<116078836, 20595795, 0 - 636>>, <<74524088, 5288079, 0 - 635>>,
      <<95690823, 16686834, 0 - 635>>, <<122869449, 13089245, 0 - 635>>, <<78883747, 57071421, 0 - 634>>,
      <<101288737, 13659317, 0 - 634>>, <<130057312, 66676024, 0 - 634>>, <<83498447, 50661531, 0 - 633>>,
      <<107214129, 11494753, 0 - 633>>, <<68832833, 29661204, 0 - 632>>, <<88383107, 43093587, 0 - 632>>,
      <<113486156, 41497576, 0 - 632>>, <<72859554, 51679954, 0 - 631>>, <<93553520, 11633311, 0 - 631>>,
      <<120125097, 48532497, 0 - 631>>, <<77121839, 22101480, 0 - 630>>, <<99026401, 59094583, 0 - 630>>,
      <<127152416, 62934477, 0 - 630>>, <<81633467, 38299296, 0 - 629>>, <<104819447, 14303476, 0 - 629>>,
      <<67295417, 12912711, 0 - 628>>, <<86409026, 6822642, 0 - 628>>, <<110951385, 50047958, 0 - 628>>,
      <<71232199, 44100527, 0 - 627>>, <<91463954, 56797937, 0 - 627>>, <<117442042, 49224354, 0 - 627>>,
      <<75399283, 62328764, 0 - 626>>, <<96814596, 64733040, 0 - 626>>, <<124312403, 14020586, 0 - 626>>,
      <<79810142, 44620412, 0 - 625>>, <<102478251, 46385722, 0 - 625>>, <<131584679, 55648399, 0 - 625>>,
      <<84479036, 45212740, 0 - 624>>, <<108473230, 17874802, 0 - 624>>, <<69641192, 23227123, 0 - 623>>,
      <<89421061, 1398982, 0 - 623>>, <<114818915, 9257825, 0 - 623>>, <<73715202, 45420745, 0 - 622>>,
      <<94652193, 55923660, 0 - 622>>, <<121535822, 42093846, 0 - 622>>, <<78027542, 43333486, 0 - 621>>,
      <<100189347, 64343320, 0 - 621>>, <<128645669, 17479087, 0 - 621>>, <<82592154, 36145970, 0 - 620>>,
      <<106050425, 43391648, 0 - 620>>, <<68085720, 66463607, 0 - 619>>, <<87423796, 17794876, 0 - 619>>,
      <<112254376, 28709294, 0 - 619>>, <<72068736, 15694442, 0 - 618>>, <<92538089, 4888744, 0 - 618>>,
      <<118821258, 25585318, 0 - 618>>, <<76284757, 60543857, 0 - 617>>, <<97951568, 3507254, 0 - 617>>,
      <<125772302, 66003150, 0 - 617>>, <<80747416, 58592606, 0 - 616>>, <<103681735, 40059848, 0 - 616>>,
      <<133129983, 50517331, 0 - 616>>, <<85471141, 28916497, 0 - 615>>, <<109747117, 66476337, 0 - 615>>,
      <<70459044, 30471662, 0 - 614>>, <<90471203, 61374314, 0 - 614>>, <<116167325, 20442690, 0 - 614>>,
      <<74580899, 9387351, 0 - 613>>, <<95763770, 6377622, 0 - 613>>, <<122963114, 53678036, 0 - 613>>,
      <<78943882, 24096086, 0 - 612>>, <<101365951, 29597669, 0 - 612>>, <<130156458, 2485060, 0 - 612>>,
      <<83562100, 8912002, 0 - 611>>, <<107295860, 29683609, 0 - 611>>, <<68885305, 64200366, 0 - 610>>,
      <<88450483, 45946951, 0 - 610>>, <<113572669, 11370361, 0 - 610>>, <<72915096, 62230667, 0 - 609>>,
      <<93624837, 47977151, 0 - 609>>, <<120216671, 17395707, 0 - 609>>, <<77180630, 47191905, 0 - 608>>,
      <<99101891, 33481772, 0 - 608>>, <<127249347, 35328831, 0 - 608>>, <<81695698, 16135693, 0 - 607>>,
      <<104899352, 65416223, 0 - 607>>, <<67346717, 47436350, 0 - 606>>, <<86474897, 17857559, 0 - 606>>,
      <<111035965, 66782151, 0 - 606>>, <<71286501, 16918975, 0 - 605>>, <<91533679, 31840122, 0 - 605>>,
      <<117531570, 62287024, 0 - 605>>, <<75456762, 11240108, 0 - 604>>, <<96888400, 32482033, 0 - 604>>,
      <<124407168, 53935566, 0 - 604>>, <<79870983, 25572382, 0 - 603>>, <<102556372, 48125305, 0 - 603>>,
      <<131684989, 14232923, 0 - 603>>, <<84543436, 38405425, 0 - 602>>, <<108555921, 25027743, 0 - 602>>,
      <<69694281, 5865788, 0 - 601>>, <<89489228, 21072883, 0 - 601>>, <<114906443, 45295911, 0 - 601>>,
      <<73771397, 7376914, 0 - 600>>, <<94724348, 61317890, 0 - 600>>, <<121628471, 39218327, 0 - 600>>,
      <<78087024, 30442277, 0 - 599>>, <<100265724, 7514318, 0 - 599>>, <<128743738, 12238848, 0 - 599>>,
      <<82655116, 2199797, 0 - 598>>, <<106131269, 54047019, 0 - 598>>, <<68137623, 64942281, 0 - 597>>,
      <<87490441, 487103, 0 - 597>>, <<112339949, 65131785, 0 - 597>>, <<72123675, 35956985, 0 - 596>>,
      <<92608632, 35762860, 0 - 596>>, <<118911837, 65561958, 0 - 596>>, <<76342911, 10316563, 0 - 595>>,
      <<98026238, 20489799, 0 - 595>>, <<125868181, 32636562, 0 - 595>>, <<80808972, 6063411, 0 - 594>>,
      <<103760774, 4054861, 0 - 594>>, <<133231471, 9984197, 0 - 594>>, <<85536297, 42202351, 0 - 593>>,
      <<109830780, 13745829, 0 - 593>>, <<70512756, 44212832, 0 - 592>>, <<90540171, 50374995, 0 - 592>>,
      <<116255881, 50942527, 0 - 592>>, <<74637753, 34162868, 0 - 591>>, <<95836772, 36917654, 0 - 591>>,
      <<123056851, 54201876, 0 - 591>>, <<79004062, 47601199, 0 - 590>>, <<101443224, 36262292, 0 - 590>>,
      <<130255678, 44330194, 0 - 590>>, <<83625801, 2284544, 0 - 589>>, <<107377654, 1247043, 0 - 589>>,
      <<68937818, 31680833, 0 - 588>>, <<88517911, 5983288, 0 - 588>>, <<113659247, 45002163, 0 - 588>>,
      <<72970681, 28542657, 0 - 587>>, <<93696209, 41817769, 0 - 587>>, <<120308314, 40493873, 0 - 587>>,
      <<77239466, 60050284, 0 - 586>>, <<99177438, 44584374, 0 - 586>>, <<127346352, 471534, 0 - 586>>,
      <<81757976, 23470852, 0 - 585>>, <<104979319, 43622453, 0 - 585>>, <<67398057, 22052617, 0 - 584>>,
      <<86540818, 43306171, 0 - 584>>, <<111120610, 48422086, 0 - 584>>, <<71340844, 16251369, 0 - 583>>,
      <<91603457, 17106065, 0 - 583>>, <<117621167, 24948458, 0 - 583>>, <<75514284, 14959371, 0 - 582>>,
      <<96962260, 17797346, 0 - 582>>, <<124502006, 42950351, 0 - 582>>, <<79931870, 32024314, 0 - 581>>,
      <<102634553, 19872050, 0 - 581>>, <<131785375, 4201442, 0 - 581>>, <<84607885, 37853205, 0 - 580>>,
      <<108638675, 34658820, 0 - 580>>, <<69747410, 20079731, 0 - 579>>, <<89557447, 38408797, 0 - 579>>,
      <<114994038, 62851402, 0 - 579>>, <<73827634, 25572550, 0 - 578>>, <<94796558, 67055961, 0 - 578>>,
      <<121721191, 11376754, 0 - 578>>, <<78146551, 40640455, 0 - 577>>, <<100342158, 32754344, 0 - 577>>,
      <<128841881, 57982155, 0 - 577>>, <<82718125, 35140121, 0 - 576>>, <<106212175, 39802678, 0 - 576>>,
      <<68189566, 34334561, 0 - 575>>, <<87557136, 37167944, 0 - 575>>, <<112425588, 50166358, 0 - 575>>,
      <<72178656, 48248617, 0 - 574>>, <<92679229, 51641922, 0 - 574>>, <<119002486, 41816390, 0 - 574>>,
      <<76401108, 49429697, 0 - 573>>, <<98100965, 32270421, 0 - 573>>, <<125964133, 5304262, 0 - 573>>,
      <<80870574, 15586840, 0 - 572>>, <<103839872, 52100447, 0 - 572>>, <<133333035, 61100209, 0 - 572>>,
      <<85601503, 33325430, 0 - 571>>, <<109914506, 13173676, 0 - 571>>, <<70566509, 54315746, 0 - 570>>,
      <<90609192, 10883242, 0 - 570>>, <<116344505, 48437417, 0 - 570>>, <<74694651, 14721332, 0 - 569>>,
      <<95909830, 44042915, 0 - 569>>, <<123150660, 18313622, 0 - 569>>, <<79064288, 62823074, 0 - 568>>,
      <<101520556, 36664457, 0 - 568>>, <<130354974, 61860245, 0 - 568>>, <<83689550, 33261530, 0 - 567>>,
      <<107459509, 63590215, 0 - 567>>, <<68990371, 1257840, 0 - 566>>, <<88585389, 60047919, 0 - 566>>,
      <<113745892, 11549148, 0 - 566>>, <<73026308, 19890870, 0 - 565>>, <<93767635, 63045335, 0 - 565>>,
      <<120400027, 54289398, 0 - 565>>, <<77298347, 62969417, 0 - 564>>, <<99253043, 28237535, 0 - 564>>,
      <<127443430, 29251636, 0 - 564>>, <<81820301, 62731699, 0 - 563>>, <<105059347, 19147266, 0 - 563>>,
      <<67449436, 5871041, 0 - 562>>, <<86606790, 18628517, 0 - 562>>, <<111205319, 65375166, 0 - 562>>,
      <<71395228, 44215412, 0 - 561>>, <<91673288, 15314951, 0 - 561>>, <<117710832, 7809022, 0 - 561>>,
      <<75571850, 8619275, 0 - 560>>, <<97036176, 23557234, 0 - 560>>, <<124596916, 51869557, 0 - 560>>,
      <<79992803, 66348928, 0 - 559>>, <<102712793, 31781457, 0 - 559>>, <<131885837, 29465910, 0 - 559>>,
      <<84672383, 46067606, 0 - 558>>, <<108721492, 49992895, 0 - 558>>, <<69800580, 830489, 0 - 557>>,
      <<89625718, 56065172, 0 - 557>>, <<115081700, 65337813, 0 - 557>>, <<73883914, 35090310, 0 - 556>>,
      <<94868824, 8842978, 0 - 556>>, <<121813981, 29291198, 0 - 556>>, <<78206124, 9138881, 0 - 555>>,
      <<100418651, 8824257, 0 - 555>>, <<128940100, 24315860, 0 - 555>>, <<82781183, 3204643, 0 - 554>>,
      <<106293143, 3811457, 0 - 554>>, <<68241548, 43773471, 0 - 553>>, <<87623882, 63327607, 0 - 553>>,
      <<112511292, 54259151, 0 - 553>>, <<72233679, 54711910, 0 - 552>>, <<92749880, 55277050, 0 - 552>>,
      <<119093204, 24989984, 0 - 552>>, <<76459350, 45933444, 0 - 551>>, <<98175749, 41761176, 0 - 551>>,
      <<126060157, 54854270, 0 - 551>>, <<80932223, 22454613, 0 - 550>>, <<103919031, 53061293, 0 - 550>>,
      <<133434678, 6496673, 0 - 550>>, <<85666759, 4826755, 0 - 549>>, <<109998296, 913747, 0 - 549>>,
      <<70620303, 62875123, 0 - 548>>, <<90678265, 12697589, 0 - 548>>, <<116433197, 16380963, 0 - 548>>,
      <<74751592, 20388866, 0 - 547>>, <<95982944, 30600420, 0 - 547>>, <<123244540, 16777778, 0 - 547>>,
      <<79124561, 4999816, 0 - 546>>, <<101597947, 33817730, 0 - 546>>, <<130454346, 58944707, 0 - 546>>,
      <<83753348, 37218360, 0 - 545>>, <<107541428, 18576391, 0 - 545>>, <<69042963, 42088182, 0 - 544>>,
      <<88652920, 9443846, 0 - 544>>, <<113832602, 48605510, 0 - 544>>, <<73081977, 38443041, 0 - 543>>,
      <<93839116, 47334411, 0 - 543>>, <<120491810, 62356270, 0 - 543>>, <<77357273, 58243850, 0 - 542>>,
      <<99328705, 54496378, 0 - 542>>, <<127540582, 58343342, 0 - 542>>, <<81882675, 2129285, 0 - 541>>,
      <<105139435, 62218139, 0 - 541>>, <<67500854, 893809, 0 - 540>>, <<86672812, 13504321, 0 - 540>>,
      <<111290093, 53833577, 0 - 540>>, <<71449654, 35821558, 0 - 539>>, <<91743172, 29188037, 0 - 539>>,
      <<117800565, 14362878, 0 - 539>>, <<75629459, 61571982, 0 - 538>>, <<97110148, 52642147, 0 - 538>>,
      <<124691899, 17282893, 0 - 538>>, <<80053783, 63811889, 0 - 537>>, <<102791093, 19793617, 0 - 537>>,
      <<131986376, 26832403, 0 - 537>>, <<84736930, 65562068, 0 - 536>>, <<108804373, 7148424, 0 - 536>>,
      <<69853790, 17298907, 0 - 535>>, <<89694042, 9593622, 0 - 535>>, <<115169429, 56171264, 0 - 535>>,
      <<73940237, 38123386, 0 - 534>>, <<94941144, 23712783, 0 - 534>>, <<121906842, 29468757, 0 - 534>>,
      <<78265742, 5367911, 0 - 533>>, <<100495202, 5813778, 0 - 533>>, <<129038393, 49285185, 0 - 533>>,
      <<82844288, 43068393, 0 - 532>>, <<106374172, 16337456, 0 - 532>>, <<68293570, 28175848, 0 - 531>>,
      <<87690680, 14458281, 0 - 531>>, <<112597062, 13641116, 0 - 531>>, <<72288744, 57491068, 0 - 530>>,
      <<92820585, 49421456, 0 - 530>>, <<119183991, 18617936, 0 - 530>>, <<76517637, 2097445, 0 - 529>>,
      <<98250590, 51876343, 0 - 529>>, <<126156255, 50810865, 0 - 529>>, <<80993919, 29069148, 0 - 528>>,
      <<103998251, 10022161, 0 - 528>>, <<133536397, 51461093, 0 - 528>>, <<85732064, 26358145, 0 - 527>>,
      <<110082149, 47340129, 0 - 527>>, <<70674139, 4878411, 0 - 526>>, <<90747390, 58509755, 0 - 526>>,
      <<116521956, 25338267, 0 - 526>>, <<74808576, 53384418, 0 - 525>>, <<96056113, 66548218, 0 - 525>>,
      <<123338491, 53252769, 0 - 525>>, <<79184879, 10697908, 0 - 524>>, <<101675397, 30737973, 0 - 524>>,
      <<130553794, 39456027, 0 - 524>>, <<83817195, 16641195, 0 - 523>>, <<107623409, 3615589, 0 - 523>>,
      <<69095596, 22003621, 0 - 522>>, <<88720501, 58129259, 0 - 522>>, <<113919379, 25332562, 0 - 522>>,
      <<73137689, 19259692, 0 - 521>>, <<93910651, 64579409, 0 - 521>>, <<120583664, 1162342, 0 - 521>>,
      <<77416244, 48169878, 0 - 520>>, <<99404425, 59200539, 0 - 520>>, <<127637809, 24423738, 0 - 520>>,
      <<81945095, 45420830, 0 - 519>>, <<105219585, 41738334, 0 - 519>>, <<67552311, 9124637, 0 - 518>>,
      <<86738884, 30506406, 0 - 518>>, <<111374932, 17100886, 0 - 518>>, <<71504121, 60299601, 0 - 517>>,
      <<91813109, 61448653, 0 - 517>>, <<117890366, 48106853, 0 - 517>>, <<75687113, 41844771, 0 - 516>>,
      <<97184177, 40825868, 0 - 516>>, <<124786954, 10000612, 0 - 516>>, <<80114810, 26789538, 0 - 515>>,
      <<102869452, 54068675, 0 - 515>>, <<132086992, 218841, 0 - 515>>, <<84801527, 31743082, 0 - 514>>,
      <<108887316, 43572917, 0 - 514>>, <<69907041, 4449682, 0 - 513>>, <<89762417, 35874378, 0 - 513>>,
      <<115257225, 38770477, 0 - 513>>, <<73996603, 36866641, 0 - 512>>, <<95013519, 47374774, 0 - 512>>,
      <<121999774, 15528149, 0 - 512>>, <<78325405, 31650810, 0 - 511>>, <<100571811, 26706035, 0 - 511>>,
      <<129136762, 2502818, 0 - 511>>, <<82907442, 22972817, 0 - 510>>, <<106455263, 13429453, 0 - 510>>,
      <<68345631, 56677803, 0 - 509>>, <<87757528, 27380728, 0 - 509>>, <<112682896, 65872348, 0 - 509>>,
      <<72343851, 58731933, 0 - 508>>, <<92891344, 36830455, 0 - 508>>, <<119274847, 26238139, 0 - 508>>,
      <<76575967, 54410801, 0 - 507>>, <<98325488, 65532420, 0 - 507>>, <<126252426, 64027769, 0 - 507>>,
      <<81055662, 37834690, 0 - 506>>, <<104077530, 60287894, 0 - 506>>, <<133638194, 65739676, 0 - 506>>,
      <<85797419, 33355633, 0 - 505>>, <<110166067, 21502804, 0 - 505>>, <<70728015, 16641250, 0 - 504>>,
      <<90816569, 16795784, 0 - 504>>, <<116610783, 11659336, 0 - 504>>, <<74865604, 48819764, 0 - 503>>,
      <<96129339, 20519939, 0 - 503>>, <<123432514, 64290949, 0 - 503>>, <<79245243, 15159034, 0 - 502>>,
      <<101752906, 30443349, 0 - 502>>, <<130653318, 7269600, 0 - 502>>, <<83881090, 41126951, 0 - 501>>,
      <<107705452, 21902536, 0 - 501>>, <<69148269, 10164075, 0 - 500>>, <<88788135, 7411172, 0 - 500>>,
      <<114006222, 12220784, 0 - 500>>, <<73193443, 31620729, 0 - 499>>, <<93982241, 50459136, 0 - 499>>,
      <<120675587, 8504780, 0 - 499>>, <<77475260, 35045549, 0 - 498>>, <<99480203, 45300769, 0 - 498>>,
      <<127735109, 65499392, 0 - 498>>, <<82007563, 60821089, 0 - 497>>, <<105299796, 27940083, 0 - 497>>,
      <<67603807, 32568767, 0 - 496>>, <<86805007, 5100688, 0 - 496>>, <<111459835, 25592044, 0 - 496>>,
      <<71558630, 52663229, 0 - 495>>, <<91883100, 47713343, 0 - 495>>, <<117980236, 45431575, 0 - 495>>,
      <<75744811, 18793224, 0 - 494>>, <<97258262, 58102104, 0 - 494>>, <<124882081, 33726927, 0 - 494>>,
      <<80175883, 24768889, 0 - 493>>, <<102947872, 3442510, 0 - 493>>, <<132187684, 20654997, 0 - 493>>,
      <<84866173, 14236785, 0 - 492>>, <<108970323, 28280887, 0 - 492>>, <<69960332, 31466819, 0 - 491>>,
      <<89830845, 3354246, 0 - 491>>, <<115345088, 16556782, 0 - 491>>, <<74053012, 33516613, 0 - 490>>,
      <<95085950, 15540494, 0 - 490>>, <<122092776, 58199715, 0 - 490>>, <<78385114, 23203747, 0 - 489>>,
      <<100648479, 7377567, 0 - 489>>, <<129235205, 22019818, 0 - 489>>, <<82970644, 12487826, 0 - 488>>,
      <<106536415, 65356363, 0 - 488>>, <<68397732, 64199263, 0 - 487>>, <<87824427, 37591106, 0 - 487>>,
      <<112768797, 12971165, 0 - 487>>, <<72399000, 60581981, 0 - 486>>, <<92962157, 20261460, 0 - 486>>,
      <<119365772, 51391182, 0 - 486>>, <<76634343, 3820023, 0 - 485>>, <<98400444, 18539267, 0 - 485>>,
      <<126348671, 31143833, 0 - 485>>, <<81117452, 51157320, 0 - 484>>, <<104156871, 5621367, 0 - 484>>,
      <<133740069, 53299376, 0 - 484>>, <<85862824, 28366054, 0 - 483>>, <<110250048, 60889701, 0 - 483>>,
      <<70781932, 33154287, 0 - 482>>, <<90885800, 24469229, 0 - 482>>, <<116699677, 45914542, 0 - 482>>,
      <<74922676, 8917236, 0 - 481>>, <<96202620, 29586843, 0 - 481>>, <<123526609, 53556324, 0 - 481>>,
      <<79305653, 20735532, 0 - 480>>, <<101830474, 35954320, 0 - 480>>, <<130752917, 33372642, 0 - 480>>,
      <<83945034, 46056716, 0 - 479>>, <<107787558, 9525527, 0 - 479>>, <<69200982, 8622163, 0 - 478>>,
      <<88855819, 61251790, 0 - 478>>, <<114093131, 12654370, 0 - 478>>, <<73249240, 10589983, 0 - 477>>,
      <<94053886, 7763388, 0 - 477>>, <<120767580, 20856890, 0 - 477>>, <<77534321, 21170660, 0 - 476>>,
      <<99556039, 15750067, 0 - 476>>, <<127832484, 51144300, 0 - 476>>, <<82070079, 50764398, 0 - 475>>,
      <<105380068, 23949136, 0 - 475>>, <<67655343, 6124107, 0 - 474>>, <<86871180, 6972778, 0 - 474>>,
      <<111544803, 15506794, 0 - 474>>, <<71613181, 15036607, 0 - 473>>, <<91953144, 57818455, 0 - 473>>,
      <<118070175, 9839203, 0 - 473>>, <<75802552, 61774637, 0 - 472>>, <<97332404, 40249033, 0 - 472>>,
      <<124977281, 25060011, 0 - 472>>, <<80237002, 60129908, 0 - 471>>, <<103026351, 5188785, 0 - 471>>,
      <<132288453, 24955906, 0 - 471>>, <<84930868, 15562370, 0 - 470>>, <<109053393, 31615906, 0 - 470>>,
      <<70013664, 33318175, 0 - 469>>, <<89899324, 48917518, 0 - 469>>, <<115433017, 60062979, 0 - 469>>,
      <<74109464, 30271511, 0 - 468>>, <<95158435, 65250232, 0 - 468>>, <<122185850, 26889965, 0 - 468>>,
      <<78444868, 49462394, 0 - 467>>, <<100725205, 17924918, 0 - 467>>, <<129333723, 44563577, 0 - 467>>,
      <<83033894, 14076346, 0 - 466>>, <<106617630, 41062913, 0 - 466>>, <<68449873, 52770567, 0 - 465>>,
      <<87891377, 47696419, 0 - 465>>, <<112854762, 59611621, 0 - 465>>, <<72454191, 65190324, 0 - 464>>,
      <<93033024, 2473988, 0 - 464>>, <<119456767, 30511490, 0 - 464>>, <<76692762, 53926539, 0 - 463>>,
      <<98475456, 48035558, 0 - 463>>, <<126444989, 23018491, 0 - 463>>, <<81179290, 4336088, 0 - 462>>,
      <<104236271, 50440996, 0 - 462>>, <<133842022, 18110173, 0 - 462>>, <<85928279, 13938186, 0 - 461>>,
      <<110334094, 34555788, 0 - 461>>, <<70835890, 56518634, 0 - 460>>, <<90955084, 17119109, 0 - 460>>,
      <<116788639, 64459170, 0 - 460>>, <<74979791, 3009725, 0 - 459>>, <<96275957, 29495771, 0 - 459>>,
      <<123620776, 24715693, 0 - 459>>, <<79366109, 29781535, 0 - 458>>, <<101908101, 50293652, 0 - 458>>,
      <<130852592, 54537596, 0 - 458>>, <<84009027, 33922339, 0 - 457>>, <<107869726, 36793023, 0 - 457>>,
      <<69253735, 19432066, 0 - 456>>, <<88923556, 20962143, 0 - 456>>, <<114180106, 30020093, 0 - 456>>,
      <<73305079, 25450668, 0 - 455>>, <<94125585, 6392952, 0 - 455>>, <<120859643, 41803573, 0 - 455>>,
      <<77593427, 8846763, 0 - 454>>, <<99631932, 40612547, 0 - 454>>, <<127929933, 52261945, 0 - 454>>,
      <<82132643, 17686950, 0 - 453>>, <<105460401, 32893627, 0 - 453>>, <<67706917, 66016685, 0 - 452>>,
      <<86937403, 38701385, 0 - 452>>, <<111629835, 57265126, 0 - 452>>, <<71667773, 16654386, 0 - 451>>,
      <<92023242, 27384689, 0 - 451>>, <<118160182, 11943431, 0 - 451>>, <<75860338, 38821426, 0 - 450>>,
      <<97406602, 57264764, 0 - 450>>, <<125072553, 54818588, 0 - 450>>, <<80298169, 1036645, 0 - 449>>,
      <<103104889, 62365764, 0 - 449>>, <<132389299, 17048456, 0 - 449>>, <<84995612, 38240950, 0 - 448>>,
      <<109136526, 56815146, 0 - 448>>, <<70067037, 12082059, 0 - 447>>, <<89967856, 41015066, 0 - 447>>,
      <<115521014, 38497889, 0 - 447>>, <<74165959, 29331224, 0 - 446>>, <<95230976, 65110969, 0 - 446>>,
      <<122278994, 59443626, 0 - 446>>, <<78504668, 45646465, 0 - 445>>, <<100801989, 61338043, 0 - 445>>,
      <<129432317, 6864412, 0 - 445>>, <<83097192, 30203179, 0 - 444>>, <<106698907, 10822839, 0 - 444>>,
      <<68502054, 24423601, 0 - 443>>, <<87958378, 60305663, 0 - 443>>, <<112940794, 7817139, 0 - 443>>,
      <<72509425, 7598849, 0 - 442>>, <<93103944, 53338521, 0 - 442>>, <<119547831, 34253916, 0 - 442>>,
      <<76751227, 5680328, 0 - 441>>, <<98550526, 22726740, 0 - 441>>, <<126541380, 43405173, 0 - 441>>,
      <<81241174, 33998472, 0 - 440>>, <<104315732, 63623232, 0 - 440>>, <<133944052, 31253937, 0 - 440>>,
      <<85993783, 59731612, 0 - 439>>, <<110418204, 12885118, 0 - 439>>, <<70889890, 21728141, 0 - 438>>,
      <<91024420, 64554223, 0 - 438>>, <<116877670, 3651142, 0 - 438>>, <<75036949, 33322952, 0 - 437>>,
      <<96349350, 23104609, 0 - 437>>, <<123715014, 48547517, 0 - 437>>, <<79426611, 44652970, 0 - 436>>,
      <<101985788, 9377551, 0 - 436>>, <<130952344, 7539866, 0 - 436>>, <<84073069, 7217567, 0 - 435>>,
      <<107951957, 39798197, 0 - 435>>, <<69306528, 44649532, 0 - 434>>, <<88991344, 23399592, 0 - 434>>,
      <<114267148, 598445, 0 - 434>>, <<73360961, 11269932, 0 - 433>>, <<94197338, 49141879, 0 - 433>>,
      <<120951777, 7823597, 0 - 433>>, <<77652578, 377163, 0 - 432>>, <<99707883, 55736850, 0 - 432>>,
      <<128027457, 5540971, 0 - 432>>, <<82195254, 31135658, 0 - 431>>, <<105540795, 57904072, 0 - 431>>,
      <<67758532, 12929741, 0 - 430>>, <<87003677, 35758319, 0 - 430>>, <<111714933, 19962967, 0 - 430>>,
      <<71722406, 59643974, 0 - 429>>, <<92093393, 26252554, 0 - 429>>, <<118250257, 55251760, 0 - 429>>,
      <<75918168, 19294315, 0 - 428>>, <<97480857, 44931878, 0 - 428>>, <<125167898, 59606486, 0 - 428>>,
      <<80359381, 51199286, 0 - 427>>, <<103183488, 43816314, 0 - 427>>, <<132490222, 862530, 0 - 427>>,
      <<85060406, 17686694, 0 - 426>>, <<109219723, 40009385, 0 - 426>>, <<70120450, 36947223, 0 - 425>>,
      <<90036440, 49426384, 0 - 425>>, <<115609078, 22399534, 0 - 425>>, <<74222497, 32897316, 0 - 424>>,
      <<95303573, 17949570, 0 - 424>>, <<122372210, 25272738, 0 - 424>>, <<78564514, 14086317, 0 - 423>>,
      <<100878833, 6391450, 0 - 423>>, <<129530985, 46982157, 0 - 423>>, <<83160538, 63335006, 0 - 422>>,
      <<106780245, 44912284, 0 - 422>>, <<68554274, 48300664, 0 - 421>>, <<88025431, 10920953, 0 - 421>>,
      <<113026890, 62266877, 0 - 421>>, <<72564700, 24177677, 0 - 420>>, <<93174919, 41401056, 0 - 420>>,
      <<119638964, 66167152, 0 - 420>>, <<76809735, 62686286, 0 - 419>>, <<98625653, 12647079, 0 - 419>>,
      <<126637845, 28951307, 0 - 419>>, <<81303106, 8338329, 0 - 418>>, <<104395254, 48264614, 0 - 418>>,
      <<134046160, 29597837, 0 - 418>>, <<86059338, 34081269, 0 - 417>>, <<110502377, 66264240, 0 - 417>>,
      <<70943930, 65104850, 0 - 416>>, <<91093810, 35258839, 0 - 416>>, <<116966768, 1177618, 0 - 416>>,
      <<75094151, 34975472, 0 - 415>>, <<96422799, 13273417, 0 - 415>>, <<123809324, 61615323, 0 - 415>>,
      <<79487160, 598695, 0 - 414>>, <<102063533, 50451121, 0 - 414>>, <<131052171, 30484407, 0 - 414>>,
      <<84137159, 35546915, 0 - 413>>, <<108034251, 21745525, 0 - 413>>, <<69359362, 19223012, 0 - 412>>,
      <<89059184, 4096917, 0 - 412>>, <<114354255, 61999093, 0 - 412>>, <<73416885, 37334306, 0 - 411>>,
      <<94269147, 4588623, 0 - 411>>, <<121043980, 56725058, 0 - 411>>, <<77711773, 65175787, 0 - 410>>,
      <<99783892, 64082732, 0 - 410>>, <<128125054, 48999511, 0 - 410>>, <<82257913, 26441565, 0 - 409>>,
      <<105621251, 35004511, 0 - 409>>, <<67810185, 50201232, 0 - 408>>, <<87070002, 726224, 0 - 408>>,
      <<111800095, 41134222, 0 - 408>>, <<71777082, 11916671, 0 - 407>>, <<92163597, 57155778, 0 - 407>>,
      <<118340402, 9056638, 0 - 407>>, <<75976042, 5446882, 0 - 406>>, <<97555169, 6144025, 0 - 406>>,
      <<125263316, 43139226, 0 - 406>>, <<80420641, 11676650, 0 - 405>>, <<103262147, 19712229, 0 - 405>>,
      <<132591221, 47439870, 0 - 405>>, <<85125249, 23533426, 0 - 404>>, <<109302983, 51549596, 0 - 404>>,
      <<70173904, 42886280, 0 - 403>>, <<90105077, 9715277, 0 - 403>>, <<115697209, 15199688, 0 - 403>>,
      <<74279078, 43173027, 0 - 402>>, <<95376224, 60812782, 0 - 402>>, <<122465496, 62227559, 0 - 402>>,
      <<78624405, 24222946, 0 - 401>>, <<100955734, 57406248, 0 - 401>>, <<129629729, 34544120, 0 - 401>>,
      <<83223933, 48831526, 0 - 400>>, <<106861646, 12283217, 0 - 400>>, <<68606534, 59327876, 0 - 399>>,
      <<88092534, 36372992, 0 - 399>>, <<113113053, 24989367, 0 - 399>>, <<72620017, 49971974, 0 - 398>>,
      <<93245948, 36536288, 0 - 398>>, <<119730167, 62693734, 0 - 398>>, <<76868289, 25897866, 0 - 397>>,
      <<98700837, 20724208, 0 - 397>>, <<126734383, 50524912, 0 - 397>>, <<81365084, 63986815, 0 - 396>>,
      <<104474837, 7464041, 0 - 396>>, <<134148346, 17120939, 0 - 396>>, <<86124943, 6650632, 0 - 395>>,
      <<110586615, 63755612, 0 - 395>>, <<70998012, 54536955, 0 - 394>>, <<91163252, 66154740, 0 - 394>>,
      <<117055933, 60510673, 0 - 394>>, <<75151397, 10196403, 0 - 393>>, <<96496304, 2864438, 0 - 393>>,
      <<123903707, 485439, 0 - 393>>, <<79547754, 34195958, 0 - 392>>, <<102141338, 42326318, 0 - 392>>,
      <<131152074, 60152545, 0 - 392>>, <<84201298, 54299070, 0 - 391>>, <<108116607, 52950794, 0 - 391>>,
      <<69412236, 12320254, 0 - 390>>, <<89127075, 32806642, 0 - 390>>, <<114441430, 16289971, 0 - 390>>,
      <<73472852, 38714254, 0 - 389>>, <<94341010, 9749224, 0 - 389>>, <<121136254, 57883332, 0 - 389>>,
      <<77771015, 4222861, 0 - 388>>, <<99859960, 1503345, 0 - 388>>, <<128222726, 52223138, 0 - 388>>,
      <<82320620, 6046439, 0 - 387>>, <<105701768, 34439101, 0 - 387>>, <<67861878, 45626326, 0 - 386>>,
      <<87136377, 3298575, 0 - 386>>, <<111885322, 56988735, 0 - 386>>, <<71831799, 9820857, 0 - 385>>,
      <<92233855, 55721306, 0 - 385>>, <<118430615, 11088643, 0 - 385>>, <<76033959, 66643286, 0 - 384>>,
      <<97629537, 10905925, 0 - 384>>, <<125358807, 9135158, 0 - 384>>, <<80481947, 19073696, 0 - 383>>,
      <<103340865, 60227636, 0 - 383>>, <<132692298, 26498625, 0 - 383>>, <<85190141, 58308027, 0 - 382>>,
      <<109386307, 27571496, 0 - 382>>, <<70227399, 31982293, 0 - 381>>, <<90173765, 58774179, 0 - 381>>,
      <<115785407, 20332741, 0 - 381>>, <<74335702, 62363282, 0 - 380>>, <<95448931, 62314052, 0 - 380>>,
      <<122558854, 39725664, 0 - 380>>, <<78684342, 11281398, 0 - 379>>, <<101032695, 16052644, 0 - 379>>,
      <<129728548, 40507130, 0 - 379>>, <<83287376, 56272045, 0 - 378>>, <<106943108, 50325478, 0 - 378>>,
      <<68658834, 59541774, 0 - 377>>, <<88159689, 5059016, 0 - 377>>, <<113199281, 33560017, 0 - 377>>,
      <<72675377, 20028550, 0 - 376>>, <<93317031, 41512158, 0 - 376>>, <<119821440, 27387766, 0 - 376>>,
      <<76926887, 31814574, 0 - 375>>, <<98776078, 49887991, 0 - 375>>, <<126830995, 44779143, 0 - 375>>,
      <<81427111, 2032601, 0 - 374>>, <<104554480, 11431638, 0 - 374>>, <<67125304, 66011535, 0 - 373>>,
      <<86190597, 47105122, 0 - 373>>, <<110670918, 8641919, 0 - 373>>, <<71052135, 59240845, 0 - 372>>,
      <<91232748, 25730316, 0 - 372>>, <<117145167, 50907303, 0 - 372>>, <<75208686, 28325423, 0 - 371>>,
      <<96569864, 61850961, 0 - 371>>, <<123998161, 3053589, 0 - 371>>, <<79608395, 13588350, 0 - 370>>,
      <<102219202, 55143998, 0 - 370>>, <<131252054, 33328573, 0 - 370>>, <<84265486, 65973489, 0 - 369>>,
      <<108199027, 2405638, 0 - 369>>, <<69465150, 26001712, 0 - 368>>, <<89195018, 45065577, 0 - 368>>,
      <<114528671, 1085919, 0 - 368>>, <<73528862, 17590765, 0 - 367>>, <<94412928, 315265, 0 - 367>>,
      <<121228599, 14894265, 0 - 367>>, <<77830301, 21153556, 0 - 366>>, <<99936085, 5180688, 0 - 366>>,
      <<128320473, 19018054, 0 - 366>>, <<82383374, 39502775, 0 - 365>>, <<105782346, 59345522, 0 - 365>>,
      <<67913611, 1219455, 0 - 364>>, <<87202802, 46061954, 0 - 364>>, <<111970615, 3738877, 0 - 364>>,
      <<71886557, 55488809, 0 - 363>>, <<92304167, 24687037, 0 - 363>>, <<118520896, 64863304, 0 - 363>>,
      <<76091922, 3813949, 0 - 362>>, <<97703961, 62115643, 0 - 362>>, <<125454370, 28424336, 0 - 362>>,
      <<80543300, 8670608, 0 - 361>>, <<103419644, 34212407, 0 - 361>>, <<132793452, 9086536, 0 - 361>>,
      <<85255083, 57430442, 0 - 360>>, <<109469694, 38431006, 0 - 360>>, <<70280935, 6319912, 0 - 359>>,
      <<90242506, 65062105, 0 - 359>>, <<115873672, 41235701, 0 - 359>>, <<74392370, 25565817, 0 - 358>>,
      <<95521694, 25286715, 0 - 358>>, <<122652283, 28513988, 0 - 358>>, <<78744324, 44706225, 0 - 357>>,
      <<101109714, 19547451, 0 - 357>>, <<129827443, 1613225, 0 - 357>>, <<83350868, 21020026, 0 - 356>>,
      <<107024633, 27995870, 0 - 356>>, <<68711174, 50980448, 0 - 355>>, <<88226894, 53813710, 0 - 355>>,
      <<113285575, 24230205, 0 - 355>>, <<72730779, 3613587, 0 - 354>>, <<93388168, 59098716, 0 - 354>>,
      <<119912782, 30914926, 0 - 354>>, <<76985530, 15611069, 0 - 353>>, <<98851377, 35961663, 0 - 353>>,
      <<126927681, 15478888, 0 - 353>>, <<81489184, 26219385, 0 - 352>>, <<104634183, 63271032, 0 - 352>>,
      <<67176475, 54926953, 0 - 351>>, <<86256302, 23785519, 0 - 351>>, <<110755284, 38426077, 0 - 351>>,
      <<71106300, 14216789, 0 - 350>>, <<91302296, 50911472, 0 - 350>>, <<117234469, 42953742, 0 - 350>>,
      <<75266019, 24486187, 0 - 349>>, <<96643481, 58881866, 0 - 349>>, <<124092687, 5891704, 0 - 349>>,
      <<79669082, 8247854, 0 - 348>>, <<102297126, 24829603, 0 - 348>>, <<131352110, 21017479, 0 - 348>>,
      <<84329724, 5962668, 0 - 347>>, <<108281509, 7539598, 0 - 347>>, <<69518104, 62329408, 0 - 346>>,
      <<89263013, 43521412, 0 - 346>>, <<114615978, 19786640, 0 - 346>>, <<73584914, 43255357, 0 - 345>>,
      <<94484900, 46198190, 0 - 345>>, <<121321013, 65574169, 0 - 345>>, <<77889632, 51169344, 0 - 344>>,
      <<100012268, 10972429, 0 - 344>>, <<128418294, 20302223, 0 - 344>>, <<82446176, 62147199, 0 - 343>>,
      <<105862986, 45754986, 0 - 343>>, <<67965382, 53214316, 0 - 342>>, <<87269278, 64496049, 0 - 342>>,
      <<112055972, 18926146, 0 - 342>>, <<71941358, 16836699, 0 - 341>>, <<92374532, 33901818, 0 - 341>>,
      <<118611247, 39681103, 0 - 341>>, <<76149928, 20544198, 0 - 340>>, <<97778443, 28455722, 0 - 340>>,
      <<125550006, 37621919, 0 - 340>>, <<80604699, 49967122, 0 - 339>>, <<103498483, 11845345, 0 - 339>>,
      <<132894682, 66254346, 0 - 339>>, <<85320075, 23431409, 0 - 338>>, <<109553145, 20268791, 0 - 338>>,
      <<70334511, 35094240, 0 - 337>>, <<90311300, 31257840, 0 - 337>>, <<115962005, 14239331, 0 - 337>>,
      <<74449081, 2097782, 0 - 336>>, <<95594512, 19675129, 0 - 336>>, <<122745783, 32233379, 0 - 336>>,
      <<78804352, 59726033, 0 - 335>>, <<101186792, 3783174, 0 - 335>>, <<129926412, 55933968, 0 - 335>>,
      <<83414408, 12658546, 0 - 334>>, <<107106220, 15580207, 0 - 334>>, <<68763554, 35683539, 0 - 333>>,
      <<88294151, 51038299, 0 - 333>>, <<113371935, 362732, 0 - 333>>, <<72786223, 2886045, 0 - 332>>,
      <<93459360, 24959259, 0 - 332>>, <<120004194, 9725877, 0 - 332>>, <<77044217, 46681474, 0 - 331>>,
      <<98926733, 48988420, 0 - 331>>, <<127024440, 33500772, 0 - 331>>, <<81551305, 4748389, 0 - 330>>,
      <<104713948, 31870486, 0 - 330>>, <<67227685, 44409676, 0 - 329>>, <<86322057, 6361143, 0 - 329>>,
      <<110839715, 22178050, 0 - 329>>, <<71160505, 55793255, 0 - 328>>, <<91371898, 10190727, 0 - 328>>,
      <<117323839, 40130012, 0 - 328>>, <<75323396, 912911, 0 - 327>>, <<96717154, 63934810, 0 - 327>>,
      <<124187285, 12683388, 0 - 327>>, <<79729815, 20539390, 0 - 326>>, <<102375109, 21528614, 0 - 326>>,
      <<131452242, 27118359, 0 - 326>>, <<84394010, 10987604, 0 - 325>>, <<108364054, 4458070, 0 - 325>>,
      <<69571099, 56258074, 0 - 324>>, <<89331060, 30823858, 0 - 324>>, <<114703352, 8685564, 0 - 324>>,
      <<73641009, 50783480, 0 - 323>>, <<94556928, 15984989, 0 - 323>>, <<121413499, 12197780, 0 - 323>>,
      <<77949009, 29473459, 0 - 322>>, <<100088509, 21847361, 0 - 322>>, <<128516189, 59887654, 0 - 322>>,
      <<82509027, 9318205, 0 - 321>>, <<105943687, 63918824, 0 - 321>>, <<68017194, 2301819, 0 - 320>>,
      <<87335805, 61191388, 0 - 320>>, <<112141394, 38767979, 0 - 320>>, <<71996200, 30217784, 0 - 319>>,
      <<92444951, 18998857, 0 - 319>>, <<118701667, 6171794, 0 - 319>>, <<76207978, 51985625, 0 - 318>>,
      <<97852981, 47046375, 0 - 318>>, <<125645715, 40454770, 0 - 318>>, <<80666146, 11138203, 0 - 317>>,
      <<103577381, 63307594, 0 - 317>>, <<132995991, 620347, 0 - 317>>, <<85385116, 25952458, 0 - 316>>,
      <<109636659, 43445722, 0 - 316>>, <<70388128, 53284244, 0 - 315>>, <<90380146, 27151076, 0 - 315>>,
      <<116050405, 9894746, 0 - 315>>, <<74505834, 61278009, 0 - 314>>, <<95667385, 48316948, 0 - 314>>,
      <<122839354, 54527458, 0 - 314>>, <<78864426, 58680073, 0 - 313>>, <<101263928, 38872336, 0 - 313>>,
      <<130025458, 5999541, 0 - 313>>, <<83477996, 33663701, 0 - 312>>, <<107187869, 16257861, 0 - 312>>,
      <<68815974, 15692245, 0 - 311>>, <<88361459, 66462598, 0 - 311>>, <<113458360, 32431827, 0 - 311>>,
      <<72841709, 20006534, 0 - 310>>, <<93530606, 8976925, 0 - 310>>, <<120095675, 34491722, 0 - 310>>,
      <<77102949, 60203929, 0 - 309>>, <<99002147, 24795969, 0 - 309>>, <<127121273, 35506558, 0 - 309>>,
      <<81613473, 7149268, 0 - 308>>, <<104793773, 54556087, 0 - 308>>, <<67278934, 36455308, 0 - 307>>,
      <<86387861, 64503267, 0 - 307>>, <<110924210, 30296901, 0 - 307>>, <<71214752, 51864863, 0 - 306>>,
      <<91441552, 40498117, 0 - 306>>, <<117413277, 45918788, 0 - 306>>, <<75380816, 26950382, 0 - 305>>,
      <<96790884, 12771909, 0 - 305>>, <<124281955, 27115054, 0 - 305>>, <<79790594, 52829681, 0 - 304>>,
      <<102453151, 48279963, 0 - 304>>, <<131552450, 55533277, 0 - 304>>, <<84458345, 16444609, 0 - 303>>,
      <<108446661, 63486627, 0 - 303>>, <<69624135, 9852880, 0 - 302>>, <<89399159, 9624642, 0 - 302>>,
      <<114790792, 38296442, 0 - 302>>, <<73697147, 42361117, 0 - 301>>, <<94629010, 46700246, 0 - 301>>,
      <<121506054, 59695763, 0 - 301>>, <<78008431, 25488628, 0 - 300>>, <<100164808, 40776541, 0 - 300>>,
      <<128614160, 7371529, 0 - 300>>, <<82571925, 17682742, 0 - 299>>, <<106024450, 49873036, 0 - 299>>,
      <<68069044, 51827600, 0 - 298>>, <<87402383, 38740472, 0 - 298>>, <<112226881, 66593214, 0 - 298>>,
      <<72051084, 30660356, 0 - 297>>, <<92515423, 49831181, 0 - 297>>, <<118792155, 34967816, 0 - 297>>,
      <<76266073, 33291547, 0 - 296>>, <<97927576, 53683435, 0 - 296>>, <<125741497, 40652593, 0 - 296>>,
      <<80727639, 28796097, 0 - 295>>, <<103656340, 57456047, 0 - 295>>, <<133097376, 17459025, 0 - 295>>,
      <<85450207, 419320, 0 - 294>>, <<109720237, 44107423, 0 - 294>>, <<70441786, 62979347, 0 - 293>>,
      <<90449044, 55424683, 0 - 293>>, <<116138872, 31646819, 0 - 293>>, <<74562632, 3991559, 0 - 292>>,
      <<95740314, 46943127, 0 - 292>>, <<122932997, 31933760, 0 - 292>>, <<78924546, 43909380, 0 - 291>>,
      <<101341123, 60712021, 0 - 291>>, <<130124578, 56996248, 0 - 291>>, <<83541633, 19404612, 0 - 290>>,
      <<107269580, 33210629, 0 - 290>>, <<68868433, 60158184, 0 - 289>>, <<88428819, 35600688, 0 - 289>>,
      <<113544851, 56696559, 0 - 289>>, <<72897237, 57137306, 0 - 288>>, <<93601906, 13928106, 0 - 288>>,
      <<120187226, 41668552, 0 - 288>>, <<77161726, 58467179, 0 - 287>>, <<99077618, 33431981, 0 - 287>>,
      <<127218180, 25269754, 0 - 287>>, <<81675688, 35844662, 0 - 286>>, <<104873660, 220837, 0 - 286>>,
      <<67330222, 33060977, 0 - 285>>, <<86453716, 66558527, 0 - 285>>, <<111008769, 66075336, 0 - 285>>,
      <<71269041, 4545574, 0 - 284>>, <<91511260, 10330292, 0 - 284>>, <<117502783, 63805401, 0 - 284>>,
      <<75438280, 37727361, 0 - 283>>, <<96864669, 42484061, 0 - 283>>, <<124376697, 52875923, 0 - 283>>,
      <<79851420, 40378391, 0 - 282>>, <<102531253, 41016037, 0 - 282>>, <<131652735, 43058412, 0 - 282>>,
      <<84522729, 24840770, 0 - 281>>, <<108529332, 53626705, 0 - 281>>, <<69677210, 59398296, 0 - 280>>,
      <<89467309, 49686381, 0 - 280>>, <<114878299, 44917894, 0 - 280>>, <<73753328, 20175915, 0 - 279>>,
      <<94701148, 6935227, 0 - 279>>, <<121598681, 10348349, 0 - 279>>, <<78067898, 41530474, 0 - 278>>,
      <<100241166, 3624427, 0 - 278>>, <<128712205, 789397, 0 - 278>>, <<82634871, 22583035, 0 - 277>>,
      <<106105275, 6764882, 0 - 277>>, <<68120935, 2485647, 0 - 276>>, <<87469011, 66846643, 0 - 276>>,
      <<112312434, 38624364, 0 - 276>>, <<72106010, 20303201, 0 - 275>>, <<92585949, 62036182, 0 - 275>>,
      <<118882712, 62486566, 0 - 275>>, <<76324212, 33834731, 0 - 274>>, <<98002228, 51273811, 0 - 274>>,
      <<125837352, 41947936, 0 - 274>>, <<80789179, 38228281, 0 - 273>>, <<103735359, 64476532, 0 - 273>>,
      <<133198838, 53612414, 0 - 273>>, <<85515347, 16477390, 0 - 272>>, <<109803879, 25510860, 0 - 272>>,
      <<70495485, 66270561, 0 - 271>>, <<90517995, 51654713, 0 - 271>>, <<116227407, 15834187, 0 - 271>>,
      <<74619472, 33778363, 0 - 270>>, <<95813299, 18395650, 0 - 270>>, <<123026711, 35210328, 0 - 270>>,
      <<78984712, 17756774, 0 - 269>>, <<101418378, 5201605, 0 - 269>>, <<130223775, 11460155, 0 - 269>>,
      <<83605318, 39470019, 0 - 268>>, <<107351354, 2513867, 0 - 268>>, <<68920933, 36907937, 0 - 267>>,
      <<88496230, 28186381, 0 - 267>>, <<113631409, 9418560, 0 - 267>>, <<72952808, 49333401, 0 - 266>>,
      <<93673260, 42591307, 0 - 266>>, <<120278847, 34824040, 0 - 266>>, <<77220548, 43761717, 0 - 265>>,
      <<99153147, 10728643, 0 - 265>>, <<127315161, 6566740, 0 - 265>>, <<81737951, 26150191, 0 - 264>>,
      <<104953607, 6195563, 0 - 264>>, <<67381549, 36225334, 0 - 263>>, <<86519622, 15093239, 0 - 263>>,
      <<111093393, 65699707, 0 - 263>>, <<71323370, 50168687, 0 - 262>>, <<91581020, 56621427, 0 - 262>>,
      <<117592358, 30168974, 0 - 262>>, <<75495788, 35483182, 0 - 261>>, <<96938511, 21728896, 0 - 261>>,
      <<124471512, 26549164, 0 - 261>>, <<79912292, 52664716, 0 - 260>>, <<102609415, 2780402, 0 - 260>>,
      <<131753096, 60710646, 0 - 260>>, <<84587162, 38685083, 0 - 259>>, <<108612066, 45208783, 0 - 259>>,
      <<69730327, 5636049, 0 - 258>>, <<89535512, 19447118, 0 - 258>>, <<114965873, 31960001, 0 - 258>>,
      <<73809551, 53526053, 0 - 257>>, <<94773340, 33718796, 0 - 257>>, <<121691378, 1982836, 0 - 257>>,
      <<78127411, 12807525, 0 - 256>>, <<100317581, 47584334, 0 - 256>>, <<128810324, 43961988, 0 - 256>>,
      <<82697865, 26472043, 0 - 255>>, <<106186161, 4852885, 0 - 255>>, <<68172864, 57624675, 0 - 254>>,
      <<87535691, 13888629, 0 - 254>>, <<112398052, 25304206, 0 - 254>>, <<72160978, 1286735, 0 - 253>>,
      <<92656529, 58362207, 0 - 253>>, <<118973339, 25148128, 0 - 253>>, <<76382395, 55880809, 0 - 252>>,
      <<98076937, 42726631, 0 - 252>>, <<125933280, 48076192, 0 - 252>>, <<80850766, 41832927, 0 - 251>>,
      <<103814439, 20339497, 0 - 251>>, <<133300378, 45925566, 0 - 251>>, <<85580537, 9556265, 0 - 250>>,
      <<109887584, 58024349, 0 - 250>>, <<70549225, 65250496, 0 - 249>>, <<90586999, 18528128, 0 - 249>>,
      <<116316009, 33015843, 0 - 249>>, <<74676356, 18635719, 0 - 248>>, <<95886339, 32627531, 0 - 248>>,
      <<123120497, 900259, 0 - 248>>, <<79044923, 49675723, 0 - 247>>, <<101495691, 9569347, 0 - 247>>,
      <<130323047, 7474589, 0 - 247>>, <<83669052, 29232821, 0 - 246>>, <<107433189, 61571953, 0 - 246>>,
      <<68973473, 15096239, 0 - 245>>, <<88563692, 46846626, 0 - 245>>, <<113718032, 28188628, 0 - 245>>,
      <<73008421, 65869235, 0 - 244>>, <<93744669, 30638288, 0 - 244>>, <<120370538, 17528578, 0 - 244>>,
      <<77279415, 18379780, 0 - 243>>, <<99228733, 26738109, 0 - 243>>, <<127412215, 50285640, 0 - 243>>,
      <<81800261, 47601052, 0 - 242>>, <<105033615, 8486875, 0 - 242>>, <<67432915, 47948551, 0 - 241>>,
      <<86585577, 46893406, 0 - 241>>, <<111178082, 32467744, 0 - 241>>, <<71377741, 56633656, 0 - 240>>,
      <<91650834, 47872312, 0 - 240>>, <<117682001, 15609016, 0 - 240>>, <<75553340, 22458882, 0 - 239>>,
      <<97012409, 20492829, 0 - 239>>, <<124566399, 18938492, 0 - 239>>, <<79973211, 24951932, 0 - 238>>,
      <<102687636, 3727811, 0 - 238>>, <<131853534, 45292113, 0 - 238>>, <<84651644, 60488459, 0 - 237>>,
      <<108694863, 41456934, 0 - 237>>, <<69783483, 51962627, 0 - 236>>, <<89603766, 55782382, 0 - 236>>,
      <<115053514, 2835444, 0 - 236>>, <<73865818, 10384787, 0 - 235>>, <<94845587, 62755370, 0 - 235>>,
      <<121784145, 38211546, 0 - 235>>, <<78186969, 8747801, 0 - 234>>, <<100394055, 41416391, 0 - 234>>,
      <<128908519, 6495218, 0 - 234>>, <<82760907, 31804592, 0 - 233>>, <<106267108, 47289108, 0 - 233>>,
      <<68224834, 17941754, 0 - 232>>, <<87602421, 16682593, 0 - 232>>, <<112483735, 29969197, 0 - 232>>,
      <<72215987, 42861868, 0 - 231>>, <<92727163, 41559699, 0 - 231>>, <<119064034, 60701872, 0 - 231>>,
      <<76440623, 34588272, 0 - 230>>, <<98151703, 30953240, 0 - 230>>, <<126029281, 62775599, 0 - 230>>,
      <<80912400, 42010031, 0 - 229>>, <<103893578, 62344327, 0 - 229>>, <<133401995, 65464272, 0 - 229>>,
      <<85645776, 49305207, 0 - 228>>, <<109971354, 10692096, 0 - 228>>, <<70603006, 62013356, 0 - 227>>,
      <<90656055, 25842803, 0 - 227>>, <<116404679, 19535679, 0 - 227>>, <<74733283, 27889206, 0 - 226>>,
      <<95959435, 25376223, 0 - 226>>, <<123214353, 66876026, 0 - 226>>, <<79105181, 7794892, 0 - 225>>,
      <<101573063, 9719212, 0 - 225>>, <<130422394, 48908099, 0 - 225>>, <<83732834, 58285539, 0 - 224>>,
      <<107515088, 12247373, 0 - 224>>, <<69026052, 63879382, 0 - 223>>, <<88631206, 27101507, 0 - 223>>,
      <<113804721, 49273537, 0 - 223>>, <<73064077, 41803148, 0 - 222>>, <<93816132, 47960658, 0 - 222>>,
      <<120462298, 60464144, 0 - 222>>, <<77338326, 51724216, 0 - 221>>, <<99304377, 17297049, 0 - 221>>,
      <<127509344, 25990869, 0 - 221>>, <<81862619, 35516563, 0 - 220>>, <<105113684, 10212621, 0 - 220>>,
      <<67484321, 3123463, 0 - 219>>, <<86651583, 30311530, 0 - 219>>, <<111262835, 36788553, 0 - 219>>,
      <<71432154, 26059281, 0 - 218>>, <<91720701, 53912401, 0 - 218>>, <<117771712, 23618833, 0 - 218>>,
      <<75610936, 897209, 0 - 217>>, <<97086363, 41655605, 0 - 217>>, <<124661358, 33741570, 0 - 217>>,
      <<80034176, 26722851, 0 - 216>>, <<102765916, 46906472, 0 - 216>>, <<131954049, 716790, 0 - 216>>,
      <<84716176, 25654858, 0 - 215>>, <<108777723, 45597687, 0 - 215>>, <<69836680, 66231774, 0 - 214>>,
      <<89672073, 27134268, 0 - 214>>, <<115141221, 28068368, 0 - 214>>, <<73922127, 27162501, 0 - 213>>,
      <<94917890, 29751509, 0 - 213>>, <<121876983, 55540692, 0 - 213>>, <<78246572, 31672227, 0 - 212>>,
      <<100470587, 55209588, 0 - 212>>, <<129006788, 26433373, 0 - 212>>, <<82823997, 41037382, 0 - 211>>,
      <<106348118, 3010286, 0 - 211>>, <<68276843, 19679819, 0 - 210>>, <<87669202, 10720086, 0 - 210>>,
      <<112569483, 55958338, 0 - 210>>, <<72271039, 12954554, 0 - 209>>, <<92797851, 14381200, 0 - 209>>,
      <<119154799, 38464399, 0 - 209>>, <<76498895, 39335072, 0 - 208>>, <<98226526, 18867200, 0 - 208>>,
      <<126125356, 22678385, 0 - 208>>, <<80974081, 41161421, 0 - 207>>, <<103972778, 59357302, 0 - 207>>,
      <<133503690, 49079610, 0 - 207>>, <<85711066, 4048822, 0 - 206>>, <<110055187, 20996251, 0 - 206>>,
      <<70656828, 58654941, 0 - 205>>, <<90725164, 9180936, 0 - 205>>, <<116493416, 45957952, 0 - 205>>,
      <<74790253, 63757229, 0 - 204>>, <<96032586, 66599079, 0 - 204>>, <<123308282, 35468567, 0 - 204>>,
      <<79165484, 28680191, 0 - 203>>, <<101650494, 8666324, 0 - 203>>, <<130521818, 5414451, 0 - 203>>,
      <<83796665, 62004859, 0 - 202>>, <<107597048, 59058228, 0 - 202>>, <<69078672, 51088627, 0 - 201>>,
      <<88698771, 38690845, 0 - 201>>, <<113891477, 8942637, 0 - 201>>, <<73119775, 46412859, 0 - 200>>,
      <<93887650, 30234418, 0 - 200>>, <<120554129, 32988849, 0 - 200>>, <<77397283, 11873031, 0 - 199>>,
      <<99380078, 52462108, 0 - 199>>, <<127606547, 4576314, 0 - 199>>, <<81925024, 59435624, 0 - 198>>,
      <<105193814, 14493028, 0 - 198>>, <<67535765, 37971023, 0 - 197>>, <<86717639, 35028667, 0 - 197>>,
      <<111347653, 14856029, 0 - 197>>, <<71486608, 27674837, 0 - 196>>, <<91790622, 10355495, 0 - 196>>,
      <<117861491, 57694397, 0 - 196>>, <<75668575, 40151485, 0 - 195>>, <<97160374, 20990300, 0 - 195>>,
      <<124756390, 7550020, 0 - 195>>, <<80095187, 60353232, 0 - 194>>, <<102844257, 1149192, 0 - 194>>,
      <<132054639, 65119369, 0 - 194>>, <<84780757, 3807883, 0 - 193>>, <<108860646, 60860033, 0 - 193>>,
      <<69889918, 50516544, 0 - 192>>, <<89740432, 3273493, 0 - 192>>, <<115228995, 43967795, 0 - 192>>,
      <<73978479, 38944655, 0 - 191>>, <<94990248, 4633646, 0 - 191>>, <<121969892, 57588104, 0 - 191>>,
      <<78306221, 16794633, 0 - 190>>, <<100547178, 24837459, 0 - 190>>, <<129105132, 40497064, 0 - 190>>,
      <<82887135, 56628984, 0 - 189>>, <<106429189, 9391015, 0 - 189>>, <<68328891, 64865619, 0 - 188>>,
      <<87736033, 65712370, 0 - 188>>, <<112655297, 39504310, 0 - 188>>, <<72326132, 47927835, 0 - 187>>,
      <<92868592, 46690212, 0 - 187>>, <<119245633, 29081600, 0 - 187>>, <<76557212, 5283159, 0 - 186>>,
      <<98301406, 9384297, 0 - 186>>, <<126221503, 65746219, 0 - 186>>, <<81035809, 41690755, 0 - 185>>,
      <<104052039, 14464780, 0 - 185>>, <<133605463, 734544, 0 - 185>>, <<85776405, 10549111, 0 - 184>>,
      <<110139084, 25094861, 0 - 184>>, <<70710691, 57272648, 0 - 183>>, <<90794325, 38344502, 0 - 183>>,
      <<116582221, 48631821, 0 - 183>>, <<74847267, 61351018, 0 - 182>>, <<96105794, 24929030, 0 - 182>>,
      <<123402282, 44555929, 0 - 182>>, <<79225833, 47572726, 0 - 181>>, <<101727984, 9428106, 0 - 181>>,
      <<130621317, 15085823, 0 - 181>>, <<83860545, 42878226, 0 - 180>>, <<107679072, 3871868, 0 - 180>>,
      <<69131332, 45883390, 0 - 179>>, <<88766388, 17138735, 0 - 179>>, <<113978298, 44794442, 0 - 179>>,
      <<73175516, 14760013, 0 - 178>>, <<93959222, 47355421, 0 - 178>>, <<120646030, 5790120, 0 - 178>>,
      <<77456284, 35341435, 0 - 177>>, <<99455838, 965584, 0 - 177>>, <<127703823, 56938750, 0 - 177>>,
      <<81987477, 54681256, 0 - 176>>, <<105274005, 24450698, 0 - 176>>, <<67587249, 20278254, 0 - 175>>,
      <<86783745, 63618968, 0 - 175>>, <<111432535, 37084311, 0 - 175>>, <<71541103, 63602355, 0 - 174>>,
      <<91860595, 54144060, 0 - 174>>, <<117951339, 54225478, 0 - 174>>, <<75726259, 8250149, 0 - 173>>,
      <<97234441, 28489914, 0 - 173>>, <<124851494, 11176010, 0 - 173>>, <<80156245, 61111778, 0 - 172>>,
      <<102922657, 3726558, 0 - 172>>, <<132155307, 41093206, 0 - 172>>, <<84845386, 64573055, 0 - 171>>,
      <<108943633, 23366559, 0 - 171>>, <<69943197, 6891568, 0 - 170>>, <<89808842, 53972800, 0 - 170>>,
      <<115316836, 53954217, 0 - 170>>, <<74034874, 47927249, 0 - 169>>, <<95062660, 57330364, 0 - 169>>,
      <<122062872, 47974374, 0 - 169>>, <<78365915, 33548348, 0 - 168>>, <<100623827, 20393541, 0 - 168>>,
      <<129203551, 52518686, 0 - 168>>, <<82950322, 13930979, 0 - 167>>, <<106510322, 2481706, 0 - 167>>,
      <<68380980, 21309721, 0 - 166>>, <<87802916, 50046101, 0 - 166>>, <<112741176, 51060069, 0 - 166>>,
      <<72381268, 15710933, 0 - 165>>, <<92939388, 7025744, 0 - 165>>, <<119336536, 36093196, 0 - 165>>,
      <<76615573, 1813944, 0 - 164>>, <<98376343, 5422538, 0 - 164>>, <<126317724, 61508170, 0 - 164>>,
      <<81097584, 46003523, 0 - 163>>, <<104131359, 64973200, 0 - 163>>, <<133707312, 58612785, 0 - 163>>,
      <<85841794, 4243421, 0 - 162>>, <<110223045, 26257326, 0 - 162>>, <<70764595, 59965475, 0 - 161>>,
      <<90863539, 48919803, 0 - 161>>, <<116671094, 31017946, 0 - 161>>, <<74904325, 22892363, 0 - 160>>,
      <<96179057, 37436636, 0 - 160>>, <<123496354, 30692359, 0 - 160>>, <<79286228, 66824260, 0 - 159>>,
      <<101805533, 15024281, 0 - 159>>, <<130720892, 14690751, 0 - 159>>, <<83924474, 3394980, 0 - 158>>,
      <<107761157, 51211262, 0 - 158>>, <<69184032, 50315786, 0 - 157>>, <<88834056, 32189008, 0 - 157>>,
      <<114065186, 25994590, 0 - 157>>, <<73231299, 16125637, 0 - 156>>, <<94030849, 35003915, 0 - 156>>,
      <<120738000, 49558114, 0 - 156>>, <<77515330, 57319801, 0 - 155>>, <<99531654, 67086347, 0 - 155>>,
      <<127801174, 52651246, 0 - 155>>, <<82049978, 23687200, 0 - 154>>, <<105354257, 43210615, 0 - 154>>,
      <<67638772, 19160299, 0 - 153>>, <<86849902, 51549683, 0 - 153>>, <<111517482, 39672332, 0 - 153>>,
      <<71595641, 1747752, 0 - 152>>, <<91930622, 53787185, 0 - 152>>, <<118041256, 16713377, 0 - 152>>,
      <<75783986, 41658809, 0 - 151>>, <<97308564, 67040784, 0 - 151>>, <<124946670, 48325668, 0 - 151>>,
      <<80217350, 31377871, 0 - 150>>, <<103001116, 57693756, 0 - 150>>, <<132256051, 66778965, 0 - 150>>,
      <<84910066, 9142358, 0 - 149>>, <<109026683, 3460043, 0 - 149>>, <<69996516, 4541925, 0 - 148>>,
      <<89877305, 47680375, 0 - 148>>, <<115404744, 61450731, 0 - 148>>, <<74091312, 56307955, 0 - 147>>,
      <<95135128, 56445803, 0 - 147>>, <<122155923, 30322851, 0 - 147>>, <<78425655, 17150744, 0 - 146>>,
      <<100700534, 44864779, 0 - 146>>, <<129302045, 66333553, 0 - 146>>, <<83013556, 49623419, 0 - 145>>,
      <<106591516, 52552908, 0 - 145>>, <<68433108, 25259694, 0 - 144>>, <<87869850, 33436508, 0 - 144>>,
      <<112827121, 26863393, 0 - 144>>, <<72436445, 52670162, 0 - 143>>, <<93010237, 32364365, 0 - 143>>,
      <<119427508, 63041610, 0 - 143>>, <<76673978, 31201706, 0 - 142>>, <<98451337, 9902156, 0 - 142>>,
      <<126414019, 13713889, 0 - 142>>, <<81159406, 56507051, 0 - 141>>, <<104210741, 12647037, 0 - 141>>,
      <<133809240, 25356748, 0 - 141>>, <<85907232, 54788770, 0 - 140>>, <<110307070, 27755538, 0 - 140>>,
      <<70818541, 1725155, 0 - 139>>, <<90932806, 43604058, 0 - 139>>, <<116760034, 63688492, 0 - 139>>,
      <<74961426, 17713609, 0 - 138>>, <<96252376, 39868041, 0 - 138>>, <<123590497, 64652621, 0 - 138>>,
      <<79346670, 21679486, 0 - 137>>, <<101883141, 28476875, 0 - 137>>, <<130820543, 8109592, 0 - 137>>,
      <<83988451, 13155224, 0 - 136>>, <<107843306, 2948632, 0 - 136>>, <<69236772, 66439493, 0 - 135>>,
      <<88901776, 19369777, 0 - 135>>, <<114152140, 23037889, 0 - 135>>, <<73287124, 52683551, 0 - 134>>,
      <<94102530, 63080003, 0 - 134>>, <<120830041, 33659124, 0 - 134>>, <<77574422, 13000252, 0 - 133>>,
      <<99607529, 52452331, 0 - 133>>, <<127898599, 62616353, 0 - 133>>, <<82112526, 35997915, 0 - 132>>,
      <<105434571, 6791284, 0 - 132>>, <<67690334, 36624967, 0 - 131>>, <<86916110, 1398891, 0 - 131>>,
      <<111602494, 25930410, 0 - 131>>, <<71650219, 45562888, 0 - 130>>, <<92000703, 12013766, 0 - 130>>,
      <<118131241, 15770931, 0 - 130>>, <<75841758, 8409332, 0 - 129>>, <<97382745, 5313717, 0 - 129>>,
      <<125041919, 55599085, 0 - 129>>, <<80278501, 40641572, 0 - 128>>, <<103079636, 31890572, 0 - 128>>,
      <<132356873, 11884846, 0 - 128>>, <<84974794, 41362878, 0 - 127>>, <<109109796, 4376865, 0 - 127>>,
      <<70049875, 45545413, 0 - 126>>, <<89945820, 54173025, 0 - 126>>, <<115492720, 2774182, 0 - 126>>,
      <<74147793, 66286122, 0 - 125>>, <<95207652, 4803982, 0 - 125>>, <<122249045, 8259647, 0 - 125>>,
      <<78485440, 37038696, 0 - 124>>, <<100777300, 34131535, 0 - 124>>, <<129400615, 18671043, 0 - 124>>,
      <<83076839, 31952773, 0 - 123>>, <<106672773, 28550985, 0 - 123>>, <<68485276, 11638062, 0 - 122>>,
      <<87936835, 18491947, 0 - 122>>, <<112913131, 37372341, 0 - 122>>, <<72491665, 26738020, 0 - 121>>,
      <<93081140, 58358154, 0 - 121>>, <<119518550, 46363096, 0 - 121>>, <<76732428, 28613594, 0 - 120>>,
      <<98526388, 25745609, 0 - 120>>, <<126510386, 60333615, 0 - 120>>, <<81221276, 8501633, 0 - 119>>,
      <<104290182, 61906302, 0 - 119>>, <<133911245, 39156194, 0 - 119>>, <<85972721, 30517524, 0 - 118>>,
      <<110391159, 32863886, 0 - 118>>, <<70872527, 18871613, 0 - 117>>, <<91002126, 25096544, 0 - 117>>,
      <<116849043, 15891668, 0 - 117>>, <<75018570, 48039933, 0 - 116>>, <<96325751, 35080428, 0 - 116>>,
      <<123684713, 15887684, 0 - 116>>, <<79407157, 48711480, 0 - 115>>, <<101960808, 52810216, 0 - 115>>,
      <<130920269, 66334526, 0 - 115>>, <<84052477, 7543233, 0 - 114>>, <<107925516, 63611822, 0 - 114>>,
      <<69289553, 29200892, 0 - 113>>, <<88969547, 48428892, 0 - 113>>, <<114239160, 39312865, 0 - 113>>,
      <<73342992, 59500366, 0 - 112>>, <<94174267, 159325, 0 - 112>>, <<120922152, 28788768, 0 - 112>>,
      <<77633558, 38903258, 0 - 111>>, <<99683462, 27129178, 0 - 111>>, <<127996099, 23521787, 0 - 111>>,
      <<82175122, 26941988, 0 - 110>>, <<105514945, 52540181, 0 - 110>>, <<67741936, 7572735, 0 - 109>>,
      <<86982367, 49964362, 0 - 109>>, <<111687570, 66280248, 0 - 109>>, <<71704839, 62956919, 0 - 108>>,
      <<92070836, 65772507, 0 - 108>>, <<118221294, 54904780, 0 - 108>>, <<75899573, 44970755, 0 - 107>>,
      <<97456981, 47526043, 0 - 107>>, <<125137241, 36708040, 0 - 107>>, <<80339699, 24177025, 0 - 106>>,
      <<103158215, 63594581, 0 - 106>>, <<132457771, 14557497, 0 - 106>>, <<85039572, 29539304, 0 - 105>>,
      <<109192972, 29355872, 0 - 105>>, <<70103275, 64872548, 0 - 104>>, <<90014388, 9011865, 0 - 104>>,
      <<115580762, 15570618, 0 - 104>>, <<74204318, 12953911, 0 - 103>>, <<95280230, 39448800, 0 - 103>>,
      <<122342237, 52522502, 0 - 103>>, <<78545271, 28433124, 0 - 102>>, <<100854124, 58294175, 0 - 102>>,
      <<129499259, 47590048, 0 - 102>>, <<83140170, 30493982, 0 - 101>>, <<106754092, 751307, 0 - 101>>,
      <<68537483, 49586626, 0 - 100>>, <<88003871, 7822760, 0 - 100>>, <<112999207, 18829793, 0 - 100>>,
      <<72546927, 7175234, 0 - 99>>, <<93152098, 20661295, 0 - 99>>, <<119609661, 56714344, 0 - 99>>,
      <<76790922, 63436220, 0 - 98>>, <<98601496, 55877582, 0 - 98>>, <<126606828, 3796127, 0 - 98>>,
      <<81283192, 38615994, 0 - 97>>, <<104369685, 14520186, 0 - 97>>, <<134013328, 36877319, 0 - 97>>,
      <<86038260, 1090587, 0 - 96>>, <<110475312, 44859253, 0 - 96>>, <<70926554, 46399787, 0 - 95>>,
      <<91071498, 63207457, 0 - 95>>, <<116938119, 25313785, 0 - 95>>, <<75075758, 48989344, 0 - 94>>,
      <<96399182, 25933159, 0 - 94>>, <<123779000, 22286769, 0 - 94>>, <<79467691, 16059660, 0 - 93>>,
      <<102038535, 23942074, 0 - 93>>, <<131020072, 59034100, 0 - 93>>, <<84116551, 56162907, 0 - 92>>,
      <<108007790, 35077933, 0 - 92>>, <<69342374, 7765658, 0 - 91>>, <<89037370, 54898486, 0 - 91>>,
      <<114326247, 11101762, 0 - 91>>, <<73398903, 38753217, 0 - 90>>, <<94246057, 50363970, 0 - 90>>,
      <<121014333, 38536535, 0 - 90>>, <<77692740, 3115587, 0 - 89>>, <<99759452, 61184786, 0 - 89>>,
      <<128093673, 6275886, 0 - 89>>, <<82237765, 66067595, 0 - 88>>, <<105595381, 49371716, 0 - 88>>,
      <<67793577, 1123337, 0 - 87>>, <<87048675, 65610378, 0 - 87>>, <<111772712, 29819486, 0 - 87>>,
      <<71759501, 56058354, 0 - 86>>, <<92141024, 16469873, 0 - 86>>, <<118311417, 3406513, 0 - 86>>,
      <<75957433, 19378374, 0 - 85>>, <<97531274, 62352976, 0 - 85>>, <<125232635, 62476008, 0 - 85>>,
      <<80400943, 51477922, 0 - 84>>, <<103236855, 21650234, 0 - 84>>, <<132558746, 11619969, 0 - 84>>,
      <<85104399, 43304840, 0 - 83>>, <<109276212, 14529516, 0 - 83>>, <<70156716, 64604295, 0 - 82>>,
      <<90083007, 49086635, 0 - 82>>, <<115668871, 36162107, 0 - 82>>, <<74260885, 32731751, 0 - 81>>,
      <<95352864, 28990856, 0 - 81>>, <<122435501, 32525331, 0 - 81>>, <<78605147, 60774453, 0 - 80>>,
      <<100931007, 53237618, 0 - 80>>, <<129597979, 22716934, 0 - 80>>, <<83203549, 47715004, 0 - 79>>,
      <<106835472, 39431659, 0 - 79>>, <<68589731, 6922145, 0 - 78>>, <<88070958, 4041279, 0 - 78>>,
      <<113085348, 41698916, 0 - 78>>, <<72602230, 63244172, 0 - 77>>, <<93223109, 56256669, 0 - 77>>,
      <<119700842, 30537017, 0 - 77>>, <<76849462, 3731340, 0 - 76>>, <<98676662, 36116127, 0 - 76>>,
      <<126703342, 49186251, 0 - 76>>, <<81345156, 15045239, 0 - 75>>, <<104449248, 7804557, 0 - 75>>,
      <<134115489, 22498213, 0 - 75>>, <<86103848, 36170808, 0 - 74>>, <<110559529, 67021020, 0 - 74>>,
      <<70980623, 19306216, 0 - 73>>, <<91140924, 26422464, 0 - 73>>, <<117027263, 28317202, 0 - 73>>,
      <<75132990, 22790413, 0 - 72>>, <<96472669, 15287775, 0 - 72>>, <<123873359, 20415304, 0 - 72>>,
      <<79528270, 60300696, 0 - 71>>, <<102116321, 12010256, 0 - 71>>, <<131119951, 57206416, 0 - 71>>,
      <<84180675, 27293459, 0 - 70>>, <<108090126, 54770827, 0 - 70>>, <<69395235, 4192171, 0 - 69>>,
      <<89105245, 41421572, 0 - 69>>, <<114413400, 8907137, 0 - 69>>, <<73454856, 59729764, 0 - 68>>,
      <<94317903, 15164971, 0 - 68>>, <<121106584, 66494650, 0 - 68>>, <<77751966, 42161222, 0 - 67>>,
      <<99835501, 23362715, 0 - 67>>, <<128191321, 14681019, 0 - 67>>, <<82300457, 21598178, 0 - 66>>,
      <<105675879, 420412, 0 - 66>>, <<67845257, 19289178, 0 - 65>>, <<87115034, 50920918, 0 - 65>>,
      <<111857918, 54083745, 0 - 65>>, <<71814205, 26997323, 0 - 64>>, <<92211265, 1058733, 0 - 64>>,
      <<118401607, 66114712, 0 - 64>>, <<76015337, 995797, 0 - 63>>, <<97605624, 52689661, 0 - 63>>,
      <<125328103, 2402703, 0 - 63>>, <<80462234, 57822045, 0 - 62>>, <<103315554, 43339770, 0 - 62>>,
      <<132659798, 7007175, 0 - 62>>, <<85169276, 18076886, 0 - 61>>, <<109359515, 30250448, 0 - 61>>,
      <<70210198, 46823208, 0 - 60>>, <<90151679, 42853659, 0 - 60>>, <<115757048, 873334, 0 - 60>>,
      <<74317495, 60715161, 0 - 59>>, <<95425553, 43369495, 0 - 59>>, <<122528836, 19011410, 0 - 59>>,
      <<78665070, 2178292, 0 - 58>>, <<101007949, 21957929, 0 - 58>>, <<129696774, 15007590, 0 - 58>>,
      <<83266977, 18976813, 0 - 57>>, <<106916915, 13545647, 0 - 57>>, <<68642018, 19898384, 0 - 56>>,
      <<88138096, 9761829, 0 - 56>>, <<113171555, 42227703, 0 - 56>>, <<72657576, 62882252, 0 - 55>>,
      <<93294175, 33693811, 0 - 55>>, <<119792092, 38493213, 0 - 55>>, <<76908045, 53106767, 0 - 54>>,
      <<98751885, 36499256, 0 - 54>>, <<126799930, 66047358, 0 - 54>>, <<81407167, 7312906, 0 - 53>>,
      <<104528871, 44859915, 0 - 53>>, <<67108864, 0, 0 - 52>>, <<86169487, 4096390, 0 - 52>>,
      <<110643811, 35522204, 0 - 52>>, <<71034733, 6806776, 0 - 51>>, <<91210402, 51664745, 0 - 51>>,
      <<117116475, 28375792, 0 - 51>>, <<75190265, 38782273, 0 - 50>>, <<96546212, 6007999, 0 - 50>>,
      <<123967790, 13950382, 0 - 50>>, <<79588896, 49577601, 0 - 49>>, <<102194166, 20046011, 0 - 49>>,
      <<131219906, 64743677, 0 - 49>>, <<84244847, 57651462, 0 - 48>>, <<108172525, 58790219, 0 - 48>>,
      <<69448136, 20540379, 0 - 47>>, <<89173172, 10643175, 0 - 47>>, <<114500619, 36125272, 0 - 47>>,
      <<73510852, 57501597, 0 - 46>>, <<94389803, 31579818, 0 - 46>>, <<121198906, 49149212, 0 - 46>>,
      <<77811238, 24130447, 0 - 45>>, <<99911607, 50844239, 0 - 45>>, <<128289043, 52542454, 0 - 45>>,
      <<82363196, 30194494, 0 - 44>>, <<105756437, 43040911, 0 - 44>>, <<67896976, 64084195, 0 - 43>>,
      <<87181444, 8481929, 0 - 43>>, <<111943190, 8175721, 0 - 43>>, <<71868950, 45014442, 0 - 42>>,
      <<92281559, 22276313, 0 - 42>>, <<118491867, 45217453, 0 - 42>>, <<76073284, 59188348, 0 - 41>>,
      <<97680031, 21433454, 0 - 41>>, <<125423642, 61534993, 0 - 41>>, <<80523572, 45597857, 0 - 40>>,
      <<103394313, 64621177, 0 - 40>>, <<132760927, 4657026, 0 - 40>>, <<85234202, 23492494, 0 - 39>>,
      <<109442882, 12656065, 0 - 39>>, <<70263721, 13613427, 0 - 38>>, <<90220403, 60097888, 0 - 38>>,
      <<115845291, 47358193, 0 - 38>>, <<74374149, 32001339, 0 - 37>>, <<95498298, 18308494, 0 - 37>>,
      <<122622242, 15617919, 0 - 37>>, <<78725037, 56306352, 0 - 36>>, <<101084949, 34562323, 0 - 36>>,
      <<129795644, 28311972, 0 - 36>>, <<83330453, 13859994, 0 - 35>>, <<106998419, 60484752, 0 - 35>>,
      <<68694345, 23444070, 0 - 34>>, <<88205285, 27600726, 0 - 34>>, <<113257828, 23775573, 0 - 34>>,
      <<72712965, 8246262, 0 - 33>>, <<93365295, 22850955, 0 - 33>>, <<119883412, 17030013, 0 - 33>>,
      <<76966674, 12518871, 0 - 32>>, <<98827165, 59958347, 0 - 32>>, <<126896592, 58143415, 0 - 32>>,
      <<81469225, 17835509, 0 - 31>>, <<104608555, 61680263, 0 - 31>>, <<67160022, 20237851, 0 - 30>>,
      <<86235175, 41642942, 0 - 30>>, <<110728157, 20756053, 0 - 30>>, <<71088884, 11010080, 0 - 29>>,
      <<91279934, 7424090, 0 - 29>>, <<117205755, 28966074, 0 - 29>>, <<75247584, 32088031, 0 - 28>>,
      <<96619811, 959737, 0 - 28>>, <<124062293, 6571899, 0 - 28>>, <<79649568, 53361778, 0 - 27>>,
      <<102272070, 51082902, 0 - 27>>, <<131319938, 18432189, 0 - 27>>, <<84309069, 15519935, 0 - 26>>,
      <<108254987, 50347134, 0 - 26>>, <<69501077, 58871801, 0 - 25>>, <<89241150, 32319201, 0 - 25>>,
      <<114587905, 29046173, 0 - 25>>, <<73566891, 34250834, 0 - 24>>, <<94461758, 35301541, 0 - 24>>,
      <<121291298, 57206788, 0 - 24>>, <<77870555, 18441897, 0 - 23>>, <<99987772, 12377436, 0 - 23>>,
      <<128386840, 56559498, 0 - 23>>, <<82425983, 27192573, 0 - 22>>, <<105837057, 46154791, 0 - 22>>,
      <<67948736, 3306136, 0 - 21>>, <<87247904, 7990196, 0 - 21>>, <<112028526, 29636096, 0 - 21>>,
      <<71923737, 45134228, 0 - 20>>, <<92351907, 15753062, 0 - 20>>, <<118582196, 11340947, 0 - 20>>,
      <<76131276, 61996481, 0 - 19>>, <<97754494, 38592780, 0 - 19>>, <<125519255, 42269398, 0 - 19>>,
      <<80584957, 17195644, 0 - 18>>, <<103473133, 21454775, 0 - 18>>, <<132862133, 8510436, 0 - 18>>,
      <<85299177, 62081783, 0 - 17>>, <<109526312, 32103963, 0 - 17>>, <<70317284, 34169545, 0 - 16>>,
      <<90289180, 36388587, 0 - 16>>, <<115933602, 44837742, 0 - 16>>, <<74430846, 15906893, 0 - 15>>,
      <<95571098, 23751517, 0 - 15>>, <<122715719, 25984814, 0 - 15>>, <<78785051, 24168937, 0 - 14>>,
      <<101162008, 26942570, 0 - 14>>, <<129894589, 66482973, 0 - 14>>, <<83393977, 34838153, 0 - 13>>,
      <<107079986, 49207418, 0 - 13>>, <<68746712, 19598344, 0 - 12>>, <<88272525, 60176282, 0 - 12>>,
      <<113344166, 56813368, 0 - 12>>, <<72768395, 35712364, 0 - 11>>, <<93436469, 26499586, 0 - 11>>,
      <<119974801, 36814934, 0 - 11>>, <<77025347, 18470080, 0 - 10>>, <<98902503, 42318152, 0 - 10>>,
      <<126993328, 29241257, 0 - 10>>, <<81531330, 49031405, 0 - 9>>, <<104688300, 61370832, 0 - 9>>,
      <<67211219, 40401826, 0 - 8>>, <<86300914, 17152566, 0 - 8>>, <<110812567, 26009453, 0 - 8>>,
      <<71143076, 34026353, 0 - 7>>, <<91349518, 30627805, 0 - 7>>, <<117295103, 33567218, 0 - 7>>,
      <<75304947, 4941356, 0 - 6>>, <<96693466, 3011080, 0 - 6>>, <<124156868, 1962556, 0 - 6>>,
      <<79710287, 6908704, 0 - 5>>, <<102350034, 41047938, 0 - 5>>, <<131420045, 56387820, 0 - 5>>,
      <<84373339, 37619262, 0 - 4>>, <<108337512, 32655044, 0 - 4>>, <<69554059, 54140663, 0 - 3>>,
      <<89309180, 41989848, 0 - 3>>, <<114675257, 58180163, 0 - 3>>, <<73622972, 59270120, 0 - 2>>,
      <<94533768, 29134171, 0 - 2>>, <<121383761, 27158961, 0 - 2>>, <<77929917, 27407105, 0 - 1>>,
      <<100063994, 45148101, 0 - 1>>, <<128484712, 30543222, 0 - 1>>, <<82488818, 15039173, 0>>,
      <<105917739, 12903748, 0>>, <<68000534, 40298602, 1>>, <<87314414, 52035610, 1>>,
      <<112113927, 54681492, 1>>, <<71978566, 29491685, 2>>, <<92422308, 51339245, 2>>,
      <<118672593, 35114087, 2>>, <<76189313, 11680099, 3>>, <<97829014, 39960549, 3>>,
      <<125614941, 15440733, 3>>, <<80646388, 42116377, 4>>, <<103552012, 51129821, 4>>,
      <<132963416, 22511325, 4>>, <<85364203, 2159069, 5>>, <<109609806, 24736491, 5>>,
      <<70370888, 43470015, 6>>, <<90358009, 41514792, 6>>, <<116021980, 63862251, 6>>,
      <<74487586, 14641250, 7>>, <<95643953, 62535522, 7>>, <<122809267, 53754823, 7>>,
      <<78845110, 42322453, 8>>, <<101239126, 2101593, 8>>, <<129993610, 66267556, 8>>,
      <<83457550, 17277916, 9>>, <<107161615, 50001104, 9>>, <<68799119, 10401905, 10>>,
      <<88339817, 42999941, 10>>, <<113430571, 10487901, 10>>, <<72823868, 13222908, 11>>,
      <<93507697, 47413298, 11>>, <<120066260, 34300480, 11>>, <<77084065, 6137975, 12>>,
      <<98977898, 53623385, 12>>, <<127090137, 50219454, 12>>, <<81593483, 36211928, 13>>,
      <<104768106, 47039219, 13>>, <<67262455, 62487041, 14>>, <<86366703, 295907, 14>>,
      <<110897041, 54571797, 14>>, <<71197310, 10858563, 15>>, <<91419155, 56878673, 15>>,
      <<117384519, 45661046, 15>>, <<75362353, 26686489, 16>>, <<96767177, 15032304, 16>>,
      <<124251515, 3807862, 16>>, <<79771051, 46802251, 17>>, <<102428057, 60088172, 17>>,
      <<131520229, 48293951, 17>>, <<84437658, 59345141, 18>>, <<108420100, 8929873, 18>>,
      <<69607082, 8411628, 19>>, <<89377262, 42306194, 19>>, <<114762676, 59822434, 19>>,
      <<73679097, 527173, 20>>, <<94605833, 15883875, 20>>, <<121476294, 29717786, 20>>,
      <<77989324, 53339365, 21>>, <<100140275, 17908833, 21>>, <<128582658, 45416469, 21>>,
      <<82551700, 63291779, 22>>, <<105998482, 13540741, 22>>, <<68052372, 42862412, 23>>,
      <<87380976, 8992309, 23>>, <<112199394, 19531070, 23>>, <<72033437, 223446, 24>>,
      <<92492763, 64669489, 24>>, <<118763059, 52950720, 24>>, <<76247393, 44718556, 25>>,
      <<97903591, 28440745, 25>>, <<125710699, 51886651, 25>>, <<80707866, 55645123, 26>>,
      <<103630952, 22502454, 26>>, <<133064776, 50606617, 26>>, <<85429277, 47584921, 27>>,
      <<109693363, 60916201, 27>>, <<70424533, 43603748, 28>>, <<90426891, 11049850, 28>>,
      <<116110426, 40766887, 28>>, <<74544369, 30415521, 29>>, <<95716865, 3281906, 29>>,
      <<122902887, 35464589, 29>>, <<78905215, 45998497, 30>>, <<101316302, 30153468, 30>>,
      <<130092707, 31524491, 30>>, <<83521171, 30765527, 31>>, <<107243306, 66046825, 31>>,
      <<68851565, 65005870, 32>>, <<88407160, 45802871, 32>>, <<113517041, 22384005, 32>>,
      <<72879383, 10048483, 33>>, <<93578980, 21258937, 33>>, <<120157789, 13050731, 33>>,
      <<77142827, 44919603, 34>>, <<99053351, 29703270, 34>>, <<127187020, 57741724, 34>>,
      <<81655683, 48907988, 35>>, <<104847973, 21795392, 35>>, <<67313731, 21381271, 36>>,
      <<86432541, 60745564, 36>>, <<110981580, 42626122, 36>>, <<71251585, 10729014, 37>>,
      <<91488846, 21781543, 37>>, <<117474004, 1623170, 37>>, <<75419803, 32451641, 38>>,
      <<96840944, 39895876, 38>>, <<124346234, 15796136, 38>>, <<79831862, 41192638, 39>>,
      <<102506140, 44135243, 39>>, <<131620489, 65163533, 39>>, <<84502027, 16095181, 40>>,
      <<108502750, 49498857, 40>>, <<69660144, 57968661, 41>>, <<89445396, 35921341, 41>>,
      <<114850162, 37379633, 41>>, <<73735263, 61535697, 42>>, <<94677952, 65467824, 42>>,
      <<121568898, 1380337, 42>>, <<78048777, 31444871, 43>>, <<100216614, 741090, 43>>,
      <<128680679, 37887260, 43>>, <<82614631, 40183152, 44>>, <<106079286, 51212258, 44>>,
      <<68104250, 13017653, 45>>, <<87447588, 15671865, 45>>, <<112284925, 61733115, 45>>,
      <<72088349, 26576637, 46>>, <<92563272, 58489375, 46>>, <<118853595, 1267380, 46>>,
      <<76305518, 29157474, 47>>, <<97978225, 6939567, 47>>, <<125806531, 21121058, 47>>,
      <<80769391, 60177639, 48>>, <<103709952, 5757749, 48>>, <<133166214, 29637380, 48>>,
      <<85494401, 66677518, 49>>, <<109776985, 9681536, 49>>, <<70478219, 36661248, 50>>,
      <<90495825, 14786886, 50>>, <<116198939, 46107169, 50>>, <<74601195, 65442503, 51>>,
      <<95789831, 50158548, 51>>, <<122996578, 41871260, 51>>, <<78965366, 37539316, 52>>,
      <<101393537, 46996832, 52>>, <<130191879, 33224350, 52>>, <<83584841, 10671387, 53>>,
      <<107325060, 33419160, 53>>, <<68904052, 51236320, 54>>, <<88474555, 4100512, 54>>,
      <<113603577, 28762491, 54>>, <<72934940, 28352461, 55>>, <<93650317, 17923192, 55>>,
      <<120249387, 43741352, 55>>, <<77201635, 2887168, 56>>, <<99128861, 40607001, 56>>,
      <<127283977, 55583523, 56>>, <<81717931, 22434613, 57>>, <<104927900, 55860552, 57>>,
      <<67365045, 53300405, 58>>, <<86498430, 66849497, 58>>, <<111066183, 60575700, 58>>,
      <<71305901, 35752760, 59>>, <<91558589, 62269925, 59>>, <<117563556, 39158451, 59>>,
      <<75477297, 24475598, 60>>, <<96914768, 13367585, 60>>, <<124441025, 41618506, 60>>,
      <<79892719, 59558482, 61>>, <<102584282, 63340839, 61>>, <<131720826, 43794762, 61>>,
      <<84566444, 44595492, 62>>, <<108585464, 23365096, 62>>, <<69713248, 3552982, 63>>,
      <<89513582, 25490411, 63>>, <<114937714, 61369870, 63>>, <<73791473, 43157879, 64>>,
      <<94750127, 46478739, 64>>, <<121661572, 12864164, 64>>, <<78108275, 31149309, 65>>,
      <<100293010, 63728595, 65>>, <<128778775, 11775388, 65>>, <<82677610, 15274512, 66>>,
      <<106160152, 61958326, 66>>, <<68156167, 19894816, 67>>, <<87514251, 7561233, 67>>,
      <<112370522, 50403000, 67>>, <<72143303, 43582284, 68>>, <<92633835, 35546579, 68>>,
      <<118944199, 17809880, 68>>, <<76363687, 34370793, 69>>, <<98052915, 45474294, 69>>,
      <<125902435, 61096160, 69>>, <<80830963, 58111505, 70>>, <<103789012, 3974263, 70>>,
      <<133267729, 30665426, 70>>, <<85559575, 61974700, 71>>, <<109860670, 8508875, 71>>,
      <<70531946, 24734608, 72>>, <<90564811, 55412202, 72>>, <<116287520, 16223517, 72>>,
      <<74658065, 54827816, 73>>, <<95862854, 4682309, 73>>, <<123090341, 9517040, 73>>,
      <<79025563, 19288939, 74>>, <<101470831, 55641483, 74>>, <<130291127, 8122925, 74>>,
      <<83648559, 26585518, 75>>, <<107406876, 22412840, 75>>, <<68956579, 38247488, 76>>,
      <<88542000, 54736897, 76>>, <<113690179, 32995600, 76>>, <<72990540, 3191001, 77>>,
      <<93721708, 40186008, 77>>, <<120341055, 62832996, 77>>, <<77260487, 16550074, 78>>,
      <<99204429, 22168284, 78>>, <<127381008, 47523186, 78>>, <<81780226, 26326404, 79>>,
      <<105007889, 18131682, 79>>, <<67416399, 26026398, 80>>, <<86564370, 21175352, 80>>,
      <<111150851, 44608589, 80>>, <<71360259, 20937602, 81>>, <<91628386, 46843942, 81>>,
      <<117653177, 27538952, 81>>, <<75534835, 4998849, 82>>, <<96988648, 5433142, 82>>,
      <<124535889, 17860053, 82>>, <<79953623, 37162477, 83>>, <<102662484, 53641237, 83>>,
      <<131821239, 55206541, 83>>, <<84630911, 13138642, 84>>, <<108668241, 860736, 84>>,
      <<69766391, 48560571, 85>>, <<89581820, 13670553, 85>>, <<115025334, 987263, 85>>,
      <<73847726, 14693029, 86>>, <<94822357, 28838074, 86>>, <<121754317, 671840, 86>>,
      <<78167818, 54771268, 87>>, <<100369466, 8521883, 87>>, <<128876945, 38012426, 87>>,
      <<82740636, 58128951, 88>>, <<106241080, 48930232, 88>>, <<68208123, 65517068, 89>>,
      <<87580964, 54367076, 89>>, <<112456184, 55985226, 89>>, <<72198299, 53381912, 90>>,
      <<92704451, 65699736, 90>>, <<119034872, 39000129, 90>>, <<76421900, 62625313, 91>>,
      <<98127663, 12737829, 91>>, <<125998413, 41331553, 91>>, <<80892582, 51846133, 92>>,
      <<103868132, 20232900, 92>>, <<133369321, 57646710, 92>>, <<85624799, 36016244, 93>>,
      <<109944418, 60659355, 93>>, <<70585714, 9917521, 94>>, <<90633851, 1396424, 94>>,
      <<116376168, 21676707, 94>>, <<74714979, 787631, 95>>, <<95935932, 3916538, 95>>,
      <<123184175, 9164641, 95>>, <<79085805, 60702050, 96>>, <<101548184, 59099508, 96>>,
      <<130390450, 27196679, 96>>, <<83712326, 13882104, 97>>, <<107488754, 36216163, 97>>,
      <<69009146, 28086301, 98>>, <<88609497, 66122604, 98>>, <<113776847, 38458145, 98>>,
      <<73046182, 3839639, 99>>, <<93793154, 23720582, 99>>, <<120432794, 6789038, 99>>,
      <<77319384, 21092879, 100>>, <<99280054, 44440795, 100>>, <<127478113, 37341928, 100>>,
      <<81842568, 63010950, 101>>, <<105087938, 45943595, 101>>, <<67467792, 8669322, 102>>,
      <<86630359, 60510457, 102>>, <<111235583, 65133088, 102>>, <<71414658, 35510683, 103>>,
      <<91698236, 45332381, 103>>, <<117742866, 37365987, 103>>, <<75592416, 43372455, 104>>,
      <<97062584, 18971586, 104>>, <<124630825, 15326401, 104>>, <<80014573, 43486853, 105>>,
      <<102740746, 18083899, 105>>, <<131921729, 36203027, 105>>, <<84695426, 58454567, 106>>,
      <<108751080, 52320382, 106>>, <<69819575, 60844666, 107>>, <<89650110, 3120938, 107>>,
      <<115113019, 60972848, 107>>, <<73904021, 45442131, 108>>, <<94894642, 15360563, 108>>,
      <<121847132, 35526421, 108>>, <<78227407, 37522242, 109>>, <<100445979, 39426942, 109>>,
      <<128975190, 53315129, 109>>, <<82803711, 36984837, 110>>, <<106322070, 15281667, 110>>,
      <<68260120, 17691391, 111>>, <<87647729, 24471444, 111>>, <<112541912, 14709113, 111>>,
      <<72253337, 58118676, 112>>, <<92775122, 17482982, 112>>, <<119125615, 1262731, 112>>,
      <<76480158, 49080701, 113>>, <<98202467, 45860749, 113>>, <<126094464, 32676275, 113>>,
      <<80954248, 43782760, 114>>, <<103947312, 57616911, 114>>, <<133470991, 47431343, 114>>,
      <<85690072, 58452725, 115>>, <<110028231, 35178870, 115>>, <<70639522, 61414138, 116>>,
      <<90702942, 56756545, 116>>, <<116464883, 65921284, 116>>, <<74771935, 39757538, 117>>,
      <<96009065, 50709025, 117>>, <<123278080, 44470699, 117>>, <<79146094, 29908525, 118>>,
      <<101625596, 60385295, 118>>, <<130489849, 27207295, 118>>, <<83776141, 42154950, 119>>,
      <<107570695, 10910992, 119>>, <<69061753, 22801246, 120>>, <<88677046, 40887943, 120>>,
      <<113863581, 48527509, 120>>, <<73101866, 32466699, 121>>, <<93864654, 38419962, 121>>,
      <<120524602, 13402167, 121>>, <<77378326, 18810754, 122>>, <<99355737, 43262729, 122>>,
      <<127575292, 28823846, 122>>, <<81904959, 699961, 123>>, <<105168049, 8198023, 123>>,
      <<67519224, 3231911, 124>>, <<86696399, 53208647, 124>>, <<111320380, 58342281, 124>>,
      <<71469099, 14483032, 125>>, <<91768139, 60457241, 125>>, <<117832624, 5025808, 125>>,
      <<75650042, 7622598, 126>>, <<97136576, 56864151, 126>>, <<124725833, 37717127, 126>>,
      <<80075570, 13797923, 127>>, <<102819067, 26827477, 127>>, <<132022295, 57809087, 127>>,
      <<84759991, 48839662, 128>>, <<108833983, 46754505, 128>>, <<69872800, 42477813, 129>>,
      <<89718451, 63611631, 129>>, <<115200772, 43417082, 129>>, <<73960360, 3381244, 130>>,
      <<94966982, 8863087, 130>>, <<121940018, 53935989, 130>>, <<78287041, 48833218, 131>>,
      <<100522551, 25207713, 131>>, <<129073510, 61512036, 131>>, <<82866834, 21409004, 132>>,
      <<106403121, 31277591, 132>>, <<68312156, 12661766, 133>>, <<87714544, 54693826, 133>>,
      <<112627704, 64133115, 133>>, <<72308417, 59937363, 134>>, <<92845846, 27868009, 134>>,
      <<119216426, 42351571, 134>>, <<76538460, 63116081, 135>>, <<98277329, 13540399, 135>>,
      <<126190588, 38873351, 135>>, <<81015961, 36324457, 136>>, <<104026553, 52103035, 136>>,
      <<133572739, 3981318, 136>>, <<85755395, 64718928, 137>>, <<110112108, 2442395, 137>>,
      <<70693372, 47103614, 138>>, <<90772087, 22858425, 138>>, <<116553667, 18196697, 138>>,
      <<74828935, 39739360, 139>>, <<96082255, 13692004, 139>>, <<123372057, 51985772, 139>>,
      <<79206428, 63475489, 140>>, <<101703067, 62515527, 140>>, <<130589324, 12028273, 140>>,
      <<83840005, 46782028, 141>>, <<107652698, 16799351, 141>>, <<69114400, 24442373, 142>>,
      <<88744646, 48774094, 142>>, <<113950381, 66583654, 142>>, <<73157593, 24133295, 143>>,
      <<93936209, 19961590, 143>>, <<120616480, 19141209, 143>>, <<77437313, 12000621, 144>>,
      <<99431478, 21583391, 144>>, <<127672545, 25755922, 144>>, <<81967396, 43151321, 145>>,
      <<105248220, 42234535, 145>>, <<67570695, 11718425, 146>>, <<86762490, 1843442, 146>>,
      <<111405242, 27540635, 146>>, <<71523581, 27085023, 147>>, <<91838096, 27833730, 147>>,
      <<117922450, 1125055, 147>>, <<75707711, 34212621, 148>>, <<97210625, 54885405, 148>>,
      <<124820914, 21625765, 148>>, <<80136613, 17581538, 149>>, <<102897448, 15815217, 149>>,
      <<132122938, 56834845, 149>>, <<84824605, 53918832, 150>>, <<108916949, 54502627, 150>>,
      <<69926065, 62642999, 151>>, <<89786845, 63588133, 151>>, <<115288592, 18848482, 151>>,
      <<74016741, 24923557, 152>>, <<95039377, 12164674, 152>>, <<122032975, 59520245, 152>>,
      <<78346721, 23919228, 153>>, <<100599181, 35957000, 153>>, <<129171905, 66434601, 153>>,
      <<82930005, 13861295, 154>>, <<106484234, 32967642, 154>>, <<68364231, 52455991, 155>>,
      <<87781411, 13420238, 155>>, <<112713563, 6273914, 155>>, <<72363539, 60984400, 156>>,
      <<92916624, 32502018, 156>>, <<119307307, 31587778, 156>>, <<76596807, 39894578, 157>>,
      <<98352247, 52911797, 157>>, <<126286785, 63668659, 157>>, <<81077721, 31876126, 158>>,
      <<104105855, 6779226, 158>>, <<133674563, 65479374, 158>>, <<85820768, 57360441, 159>>,
      <<110196048, 32827392, 159>>, <<70747263, 36193296, 160>>, <<90841284, 36614298, 160>>,
      <<116642518, 16180486, 160>>, <<74885979, 2954341, 161>>, <<96155500, 29935335, 161>>,
      <<123466106, 35372073, 161>>, <<79266809, 29536401, 162>>, <<101780598, 1400324, 162>>,
      <<130688874, 52644928, 162>>, <<83903918, 30252068, 163>>, <<107734763, 57076835, 163>>,
      <<69167087, 35061293, 164>>, <<88812298, 25306515, 164>>, <<114037248, 28900252, 164>>,
      <<73213362, 48119921, 165>>, <<94007818, 38242759, 165>>, <<120708428, 27586577, 165>>,
      <<77496345, 2961151, 166>>, <<99507276, 49463196, 166>>, <<127769872, 31928026, 166>>,
      <<82029881, 58580445, 167>>, <<105328453, 16959620, 167>>, <<67622205, 36134653, 168>>,
      <<86828630, 43208053, 168>>, <<111490168, 43144000, 168>>, <<71578105, 8330918, 169>>,
      <<91908106, 17296859, 169>>, <<118012344, 29164173, 169>>, <<75765424, 58280992, 170>>,
      <<97284731, 15920974, 170>>, <<124916067, 37866399, 170>>, <<80197702, 57216495, 171>>,
      <<102975888, 55210422, 171>>, <<132223658, 37202277, 171>>, <<84889269, 9101172, 172>>,
      <<108999979, 11689007, 172>>, <<69979371, 56307066, 173>>, <<89855292, 5715702, 173>>,
      <<115376478, 57798173, 173>>, <<74073165, 45157341, 174>>, <<95111827, 28086499, 174>>,
      <<122126003, 55901654, 174>>, <<78406446, 32214804, 175>>, <<100675870, 7552154, 175>>,
      <<129270376, 4808337, 175>>, <<82993224, 16803429, 176>>, <<106565409, 23512729, 176>>,
      <<68416347, 4885682, 177>>, <<87848328, 37474138, 177>>, <<112799486, 45803925, 177>>,
      <<72418703, 63407846, 178>>, <<92987456, 34143171, 178>>, <<119398257, 39621768, 178>>,
      <<76655198, 48798779, 179>>, <<98427223, 32676735, 179>>, <<126383056, 43702068, 179>>,
      <<81139528, 32844500, 180>>, <<104185216, 58953520, 180>>, <<133776466, 34566953, 180>>,
      <<85886191, 38924793, 181>>, <<110280052, 62496089, 181>>, <<70801195, 30783267, 182>>,
      <<90910534, 33611860, 182>>, <<116731436, 63335103, 182>>, <<74943065, 65843148, 183>>,
      <<96228801, 35184464, 183>>, <<123560226, 65403468, 183>>, <<79327235, 64661967, 184>>,
      <<101858187, 14278698, 184>>, <<130788501, 18718939, 184>>, <<83967879, 62164563, 185>>,
      <<107816892, 723745, 185>>, <<69219814, 56711183, 186>>, <<88880001, 40230400, 186>>,
      <<114124181, 5971281, 186>>, <<73269174, 39491001, 187>>, <<94079482, 28945161, 187>>,
      <<120800446, 42321415, 187>>, <<77555421, 61101632, 188>>, <<99583132, 62747086, 188>>,
      <<127867273, 51132916, 188>>, <<82092414, 49422333, 189>>, <<105408747, 2608743, 189>>,
      <<67673755, 11379047, 190>>, <<86894821, 45662198, 190>>, <<111575159, 41353019, 190>>,
      <<71632670, 27454328, 191>>, <<91978169, 31574857, 191>>, <<118102307, 25537411, 191>>,
      <<75823182, 14967889, 192>>, <<97358893, 9967552, 192>>, <<125011293, 23038211, 192>>,
      <<80258839, 865679, 193>>, <<103054389, 13852129, 193>>, <<132324455, 2836349, 193>>,
      <<84953981, 51124287, 194>>, <<109083071, 55766961, 194>>, <<70032718, 25547303, 195>>,
      <<89923790, 26879357, 195>>, <<115464432, 29473296, 195>>, <<74129632, 66281405, 196>>,
      <<95184332, 59451890, 196>>, <<122219102, 46705438, 196>>, <<78466217, 8938520, 197>>,
      <<100752617, 10090532, 197>>, <<129368921, 14688273, 197>>, <<83056491, 32699000, 198>>,
      <<106646646, 6076169, 198>>, <<68468502, 6199458, 199>>, <<87915296, 62354376, 199>>,
      <<112885475, 51853791, 199>>, <<72473910, 2248535, 200>>, <<93058342, 35551736, 200>>,
      <<119489277, 2888930, 200>>, <<76713634, 24995274, 201>>, <<98502256, 22865817, 201>>,
      <<126479400, 49834035, 201>>, <<81201382, 41638149, 202>>, <<104264639, 10391991, 202>>,
      <<133878446, 49432844, 202>>, <<85951664, 11961455, 203>>, <<110364121, 27613209, 203>>,
      <<70855168, 32975209, 204>>, <<90979837, 16549723, 204>>, <<116820423, 28907910, 204>>,
      <<75000196, 29303818, 205>>, <<96302158, 32295873, 205>>, <<123654419, 11530029, 205>>,
      <<79387708, 36989233, 206>>, <<101935835, 37065374, 206>>, <<130888203, 48350398, 206>>,
      <<84031890, 10794312, 207>>, <<107899082, 52267141, 207>>, <<69272582, 24337920, 208>>,
      <<88947756, 29075224, 208>>, <<114211180, 1184437, 208>>, <<73325029, 421478, 209>>,
      <<94151200, 61970343, 209>>, <<120892534, 66931600, 209>>, <<77614543, 54506514, 210>>,
      <<99659046, 64391114, 210>>, <<127964749, 20057378, 210>>, <<82154995, 18113839, 211>>,
      <<105489102, 2310888, 211>>, <<67725344, 6569319, 212>>, <<86961063, 11785290, 212>>,
      <<111660215, 25479721, 212>>, <<71687277, 19472753, 213>>, <<92048286, 6289166, 213>>,
      <<118192338, 60859416, 213>>, <<75880983, 40741797, 214>>, <<97433111, 39915169, 214>>,
      <<125106591, 47960937, 214>>, <<80320021, 52238109, 215>>, <<103132949, 29017164, 215>>,
      <<132425328, 24773882, 215>>, <<85018743, 48292249, 216>>, <<109166227, 55756815, 216>>,
      <<70086105, 39551444, 217>>, <<89992340, 62639559, 217>>, <<115552453, 4410194, 217>>,
      <<74186143, 23387371, 218>>, <<95256893, 41977462, 218>>, <<122312272, 35559585, 218>>,
      <<78526033, 23528456, 219>>, <<100829422, 46562904, 219>>, <<129467541, 32805768, 219>>,
      <<83119806, 64013482, 220>>, <<106727944, 50932557, 220>>, <<68520696, 58429758, 221>>,
      <<87982316, 23561792, 221>>, <<112971530, 27774438, 221>>, <<72529158, 13875532, 222>>,
      <<93129282, 39490084, 222>>, <<119580365, 59153947, 222>>, <<76772114, 37870118, 223>>,
      <<98577346, 26403013, 223>>, <<126575818, 18710147, 223>>, <<81263283, 60667479, 224>>,
      <<104344121, 65516251, 224>>, <<133980504, 46942270, 224>>, <<86017186, 46130704, 225>>,
      <<110448253, 65672559, 225>>, <<70909182, 44872410, 226>>, <<91049192, 55237426, 226>>,
      <<116909477, 50584366, 226>>, <<75057370, 29780410, 227>>, <<96375571, 24128224, 227>>,
      <<123748683, 11640076, 227>>, <<79448227, 15983629, 228>>, <<102013543, 5677381, 228>>,
      <<130987982, 11206900, 228>>, <<84095949, 12853470, 229>>, <<107981336, 13583340, 229>>,
      <<69325390, 7106676, 230>>, <<89015562, 61590204, 230>>, <<114298245, 17929998, 230>>,
      <<73380926, 196818, 231>>, <<94222974, 5895388, 231>>, <<120984693, 37896877, 231>>,
      <<77673710, 52588594, 232>>, <<99735018, 57353588, 232>>, <<128062299, 9608817, 232>>,
      <<82217623, 34202541, 233>>, <<105569518, 19197425, 233>>, <<67776972, 23715849, 234>>,
      <<87027355, 11267569, 234>>, <<111745335, 65947524, 234>>, <<71741925, 53623043, 235>>,
      <<92118456, 11281038, 235>>, <<118282439, 4420916, 235>>, <<75938829, 3637462, 236>>,
      <<97507386, 41547193, 236>>, <<125201962, 49239412, 236>>, <<80381251, 12391436, 237>>,
      <<103211569, 36658090, 237>>, <<132526278, 39836965, 237>>, <<85083555, 3128777, 238>>,
      <<109249447, 14899089, 238>>, <<70139533, 33291083, 239>>, <<90060943, 48558802, 239>>,
      <<115640540, 53147824, 239>>, <<74242696, 52895130, 240>>, <<95329509, 45599714, 240>>,
      <<122405513, 26094849, 240>>, <<78585895, 11206736, 241>>, <<100906286, 52853454, 241>>,
      <<129566236, 63003975, 241>>, <<83183170, 46105363, 242>>, <<106809305, 27032310, 242>>,
      <<68572931, 29392842, 243>>, <<88049386, 57925807, 243>>, <<113057650, 44028211, 243>>,
      <<72584448, 33332949, 244>>, <<93200276, 48722691, 244>>, <<119671524, 10639885, 244>>,
      <<76830639, 22593372, 245>>, <<98652493, 46214523, 245>>, <<126672309, 21196581, 245>>,
      <<81325232, 25235868, 246>>, <<104423665, 26097092, 246>>, <<134082640, 31072346, 246>>,
      <<86082759, 9768173, 247>>, <<110532450, 45734990, 247>>, <<70963238, 1470892, 248>>,
      <<91118601, 18159970, 248>>, <<116998599, 64725982, 248>>, <<75114588, 2392082, 249>>,
      <<96449040, 13542357, 249>>, <<123843019, 2298139, 249>>, <<79508792, 4003522, 250>>,
      <<102091309, 57360646, 250>>, <<131087836, 45394459, 250>>, <<84160057, 3729502, 251>>,
      <<108063652, 22095419, 251>>, <<69378238, 7075325, 252>>, <<89083421, 6199974, 252>>,
      <<114385376, 59600826, 252>>, <<73436865, 40995281, 253>>, <<94294801, 64843832, 253>>,
      <<121076922, 25917453, 253>>, <<77732922, 57653560, 254>>, <<99811048, 44595072, 254>>,
      <<128159923, 23588673, 254>>, <<82280299, 33020146, 255>>, <<105649995, 56402109, 255>>,
      <<67828639, 64830546, 256>>, <<87093697, 46692381, 256>>, <<111830521, 31855783, 256>>,
      <<71796615, 64925943, 257>>, <<92188679, 49284945, 257>>, <<118372607, 61059634, 257>>,
      <<75996718, 40126803, 258>>, <<97581718, 17758062, 258>>, <<125297406, 30590169, 258>>,
      <<80442527, 17929448, 259>>, <<103290249, 39838670, 259>>, <<132627305, 51959545, 259>>,
      <<85148415, 52377246, 260>>, <<109332730, 3545642, 260>>, <<70193002, 8848262, 261>>,
      <<90129598, 54419345, 261>>, <<115728695, 44901166, 261>>, <<74299293, 22790796, 262>>,
      <<95402181, 6039570, 262>>, <<122498825, 21944750, 262>>, <<78645802, 41414992, 263>>,
      <<100983209, 31957516, 263>>, <<129665007, 42020111, 263>>, <<83246582, 48552741, 264>>,
      <<106890728, 4654848, 264>>, <<68625205, 55341977, 265>>, <<88116508, 33842377, 265>>,
      <<113143836, 36862282, 265>>, <<72639780, 62775404, 266>>, <<93271324, 66016142, 266>>,
      <<119762751, 62225700, 266>>, <<76889208, 48554564, 267>>, <<98727698, 18119911, 267>>,
      <<126768873, 61053515, 267>>, <<81387228, 4866264, 268>>, <<104503269, 29451982, 268>>,
      <<134184854, 5803221, 268>>, <<86148381, 39646894, 269>>, <<110616711, 38190444, 269>>,
      <<71017334, 39094878, 270>>, <<91188062, 42239875, 270>>, <<117087790, 7696915, 270>>,
      <<75171849, 16477423, 271>>, <<96522565, 3401295, 271>>, <<123937426, 54289272, 271>>,
      <<79569403, 3409072, 272>>, <<102169135, 60927950, 272>>, <<131187767, 20586597, 272>>,
      <<84224213, 53029504, 273>>, <<108146031, 13902306, 273>>, <<69431126, 26303311, 274>>,
      <<89151330, 66875505, 274>>, <<114472574, 62483507, 274>>, <<73492847, 57887925, 275>>,
      <<94366684, 40288155, 275>>, <<121169221, 34587413, 275>>, <<77792180, 4899996, 276>>,
      <<99887136, 29078386, 276>>, <<128257621, 65801283, 276>>, <<82343023, 17009086, 277>>,
      <<105730534, 49952222, 277>>, <<67880346, 64817994, 278>>, <<87160090, 53536176, 278>>,
      <<111915771, 60741833, 278>>, <<71851347, 55512683, 279>>, <<92258956, 55928578, 279>>,
      <<118462845, 32962784, 279>>, <<76054652, 18247999, 280>>, <<97656106, 38553285, 280>>,
      <<125392922, 62841435, 280>>, <<80503850, 4131160, 281>>, <<103368989, 41625002, 281>>,
      <<132728409, 65078571, 281>>, <<85213325, 64347497, 282>>, <<109416076, 24941937, 282>>,
      <<70246511, 35415474, 283>>, <<90198306, 15787758, 283>>, <<115816917, 50214409, 283>>,
      <<74355933, 2388755, 284>>, <<95474907, 60346703, 284>>, <<122592208, 26745579, 284>>,
      <<78705755, 49378903, 285>>, <<101060190, 53981568, 285>>, <<129763853, 40812056, 285>>,
      <<83310043, 6717868, 286>>, <<106972212, 54082012, 286>>, <<68677520, 4096525, 287>>,
      <<88183681, 21036041, 287>>, <<113230088, 9635244, 287>>, <<72695155, 37250295, 288>>,
      <<93342427, 27030265, 288>>, <<119854049, 16139873, 288>>, <<76947822, 50927231, 289>>,
      <<98802960, 12158703, 289>>, <<126865512, 7826265, 289>>, <<81449271, 1974587, 290>>,
      <<104582934, 11574163, 290>>, <<67143572, 54667903, 291>>, <<86214054, 4106394, 291>>,
      <<110701036, 46322498, 291>>, <<71071472, 25634740, 292>>, <<91257576, 63075129, 292>>,
      <<117177048, 17190561, 292>>, <<75229154, 7158991, 293>>, <<96596145, 63679105, 293>>,
      <<124031906, 37074743, 293>>, <<79630060, 16562241, 294>>, <<102247021, 19412111, 294>>,
      <<131287774, 7786393, 294>>, <<84288419, 29035883, 295>>, <<108228472, 59323104, 295>>,
      <<69484054, 66851648, 296>>, <<89219292, 44936600, 296>>, <<114559839, 29976077, 296>>,
      <<73548872, 53056333, 297>>, <<94438622, 2138431, 297>>, <<121261591, 394715, 297>>,
      <<77851482, 30854835, 298>>, <<99963282, 13768609, 298>>, <<128355395, 5836154, 298>>,
      <<82405794, 55722521, 299>>, <<105811135, 2986301, 299>>, <<67932093, 25693171, 300>>,
      <<87226534, 34386241, 300>>, <<112001087, 21710089, 300>>, <<71906121, 27516122, 301>>,
      <<92329287, 33950578, 301>>, <<118553151, 57864580, 301>>, <<76112630, 7367544, 302>>,
      <<97730551, 39722849, 302>>, <<125488512, 15497684, 302>>, <<80565219, 40495137, 303>>,
      <<103447789, 45085521, 303>>, <<132829591, 16025128, 303>>, <<85278285, 41569028, 304>>,
      <<109499486, 15227049, 304>>, <<70300061, 47969074, 305>>, <<90267066, 2450377, 305>>,
      <<115905207, 5416630, 305>>, <<74412615, 61005073, 306>>, <<95547690, 10028628, 306>>,
      <<122685662, 44136399, 306>>, <<78765754, 37434796, 307>>, <<101137230, 54816646, 307>>,
      <<129862774, 63231756, 307>>, <<83373551, 57291471, 308>>, <<107053759, 44271469, 308>>,
      <<68729874, 11912859, 309>>, <<88250905, 22124470, 309>>, <<113316405, 32817118, 309>>,
      <<72750572, 26024388, 310>>, <<93413584, 1644730, 310>>, <<119945416, 10157915, 310>>,
      <<77006481, 31995515, 311>>, <<98878279, 31263796, 311>>, <<126962223, 66607336, 311>>,
      <<81511361, 18978602, 312>>, <<104662659, 42676971, 312>>, <<67194757, 38610431, 313>>,
      <<86279776, 39923604, 313>>, <<110785426, 6308371, 313>>, <<71125651, 30309047, 314>>,
      <<91327144, 16265786, 314>>, <<117266374, 29576373, 314>>, <<75286502, 43778775, 315>>,
      <<96669782, 63025447, 315>>, <<124126458, 21445216, 315>>, <<79690763, 45826792, 316>>,
      <<102324966, 2957124, 316>>, <<131387857, 10891032, 316>>, <<84352674, 1359546, 317>>,
      <<108310977, 27352771, 317>>, <<69537023, 63674058, 318>>, <<89287306, 10140533, 318>>,
      <<114647170, 32588029, 318>>, <<73604940, 28683751, 319>>, <<94510614, 20306866, 319>>,
      <<121354030, 61156651, 319>>, <<77910830, 3611316, 320>>, <<100039486, 1633080, 320>>,
      <<128453242, 48830018, 320>>, <<82468614, 17388879, 321>>, <<105891796, 52863001, 321>>,
      <<67983879, 16581458, 322>>, <<87293028, 58940696, 322>>, <<112086467, 52302951, 322>>,
      <<71960936, 50179603, 323>>, <<92399671, 53200540, 323>>, <<118643527, 5066460, 323>>,
      <<76170652, 9744787, 324>>, <<97805053, 24167816, 324>>, <<125584174, 26501681, 324>>,
      <<80626635, 62304035, 325>>, <<103526649, 53291002, 325>>, <<132930849, 42959896, 325>>,
      <<85343294, 53682129, 326>>, <<109582959, 44760257, 326>>, <<70353652, 48595868, 327>>,
      <<90335878, 17086717, 327>>, <<115993563, 48166123, 327>>, <<74469341, 66630909, 328>>,
      <<95620527, 59248201, 328>>, <<122779188, 10650183, 328>>, <<78825799, 7920776, 329>>,
      <<101214329, 37464938, 329>>, <<129961771, 46025233, 329>>, <<83437109, 1421843, 330>>,
      <<107135368, 45509896, 330>>, <<68782268, 13722311, 331>>, <<88318180, 39727329, 331>>,
      <<113402788, 42662756, 331>>, <<72806031, 31257234, 332>>, <<93484794, 59741315, 332>>,
      <<120036852, 47840320, 332>>, <<77065184, 61154162, 333>>, <<98953656, 11261457, 333>>,
      <<127059009, 39838920, 333>>, <<81573498, 58297915, 334>>, <<104742445, 58758377, 334>>,
      <<67245981, 23832688, 335>>, <<86345549, 15441949, 335>>, <<110869879, 55654378, 335>>,
      <<71179871, 55229113, 336>>, <<91396764, 38740555, 336>>, <<117355768, 48335320, 336>>,
      <<75343894, 61462737, 337>>, <<96743476, 4309895, 337>>, <<124221082, 11085295, 337>>,
      <<79751513, 26459423, 338>>, <<102402970, 14600433, 338>>, <<131488016, 33800670, 338>>,
      <<84416977, 39613306, 339>>, <<108393544, 55424169, 339>>, <<69590033, 18834697, 340>>,
      <<89355371, 32246600, 340>>, <<114734568, 6613717, 340>>, <<73661050, 54063954, 341>>,
      <<94582661, 30490079, 341>>, <<121446541, 19148937, 341>>, <<77970222, 59699894, 342>>,
      <<100115747, 62750265, 342>>, <<128551164, 64378191, 342>>, <<82531481, 38673911, 343>>,
      <<105972520, 1399054, 343>>, <<68035704, 39500907, 344>>, <<87359573, 62681910, 344>>,
      <<112171913, 21629898, 344>>, <<72015793, 58530375, 345>>, <<92470109, 49312418, 345>>,
      <<118733971, 12308002, 345>>, <<76228718, 27640799, 346>>, <<97879611, 61900326, 346>>,
      <<125679909, 32472439, 346>>, <<80688099, 4842336, 347>>, <<103605570, 2205696, 347>>,
      <<133032185, 15611104, 347>>, <<85408353, 36111290, 348>>, <<109666496, 49685590, 348>>,
      <<70407284, 39384255, 349>>, <<90404742, 62378334, 349>>, <<116081987, 47688345, 349>>,
      <<74526111, 21476833, 350>>, <<95693421, 9517259, 350>>, <<122872784, 64149273, 350>>,
      <<78885889, 30285594, 351>>, <<101291487, 4930918, 351>>, <<130060843, 60159173, 351>>,
      <<83500714, 42912348, 352>>, <<107217039, 60977533, 352>>, <<68834702, 11566636, 353>>,
      <<88385507, 9357417, 353>>, <<113489237, 42538440, 353>>, <<72861532, 55110027, 354>>,
      <<93556060, 2768459, 354>>, <<120128358, 65641432, 354>>, <<77123933, 6473071, 355>>,
      <<99029090, 22197918, 355>>, <<127155868, 65510401, 355>>, <<81635683, 55245115, 356>>,
      <<104822292, 62927587, 356>>, <<67297244, 12330824, 357>>, <<86411372, 333400, 357>>,
      <<110954397, 63433885, 357>>, <<71234133, 35399000, 358>>, <<91466437, 66103619, 358>>,
      <<117445231, 9842163, 358>>, <<75401330, 62447408, 359>>, <<96817225, 24621939, 359>>,
      <<124315778, 9682397, 359>>, <<79812309, 27936367, 360>>, <<102481033, 57381797, 360>>,
      <<131588252, 13309571, 360>>, <<84481330, 12085293, 361>>, <<108476175, 12537156, 361>>,
      <<69643083, 1508160, 362>>, <<89423488, 46798386, 362>>, <<114822032, 22567822, 362>>,
      <<73717203, 64274653, 363>>, <<94654763, 35495687, 363>>, <<121539122, 12194356, 363>>,
      <<78029661, 108468, 364>>, <<100192067, 65874301, 364>>, <<128649161, 56296623, 364>>,
      <<82594396, 54918642, 365>>, <<106053304, 53066770, 365>>, <<68087569, 29362247, 366>>,
      <<87426169, 48203090, 366>>, <<112257424, 129539, 366>>, <<72070692, 54706173, 367>>,
      <<92540601, 25031121, 367>>, <<118824484, 16004876, 367>>, <<76286828, 63318377, 368>>,
      <<97954227, 21608135, 368>>, <<125775717, 37140677, 368>>, <<80749609, 4722936, 369>>,
      <<103684550, 29122788, 369>>, <<133133598, 5036584, 369>>, <<85473461, 58500662, 370>>,
      <<109750097, 33258419, 370>>, <<70460957, 22424226, 371>>, <<90473660, 6791100, 371>>,
      <<116170479, 7429110, 371>>, <<74582923, 61972827, 372>>, <<95766369, 65002984, 372>>,
      <<122966453, 6954467, 372>>, <<78946025, 39762058, 373>>, <<101368703, 27330218, 373>>,
      <<130159991, 42385476, 373>>, <<83564368, 50023917, 374>>, <<107298773, 26748175, 374>>,
      <<68887176, 7489141, 375>>, <<88452885, 747259, 375>>, <<113575752, 35813017, 375>>,
      <<72917076, 32636748, 376>>, <<93627379, 34829899, 376>>, <<120219935, 18315, 376>>,
      <<77182726, 4459338, 377>>, <<99104581, 67012790, 377>>, <<127252802, 13178584, 377>>,
      <<81697916, 12243499, 378>>, <<104902200, 58296176, 378>>, <<67348546, 6102508, 379>>,
      <<86477244, 64271882, 379>>, <<111038980, 32940494, 379>>, <<71288436, 40042105, 380>>,
      <<91536164, 33961233, 380>>, <<117534761, 51800906, 380>>, <<75458810, 48971022, 381>>,
      <<96891030, 59726666, 381>>, <<124410546, 20926746, 381>>, <<79873151, 52626794, 382>>,
      <<102559157, 125565, 382>>, <<131688564, 20432703, 382>>, <<84545731, 55501004, 383>>,
      <<108558868, 36129499, 383>>, <<69696173, 13761753, 384>>, <<89491657, 56450366, 384>>,
      <<114909563, 16749889, 384>>, <<73773399, 61504092, 385>>, <<94726920, 38133450, 385>>,
      <<121631773, 43900711, 385>>, <<78089144, 28479885, 386>>, <<100268446, 13979317, 386>>,
      <<128747233, 28404172, 386>>, <<82657360, 1465963, 387>>, <<106134151, 9687676, 387>>,
      <<68139473, 55295474, 388>>, <<87492816, 18099420, 388>>, <<112342999, 58243018, 388>>,
      <<72125633, 40846365, 389>>, <<92611146, 50212517, 389>>, <<118915066, 19684301, 389>>,
      <<76344983, 51933176, 390>>, <<98028899, 40416675, 390>>, <<125871598, 44239959, 390>>,
      <<80811165, 64342831, 391>>, <<103763591, 2902354, 391>>, <<133235088, 15188312, 391>>,
      <<85538619, 56278601, 392>>, <<109833761, 65845463, 392>>, <<70514670, 66916228, 393>>,
      <<90542629, 54337255, 393>>, <<116259037, 65054582, 393>>, <<74639779, 56115104, 394>>,
      <<95839374, 27221542, 394>>, <<123060192, 44042530, 394>>, <<79006207, 38693625, 395>>,
      <<101445978, 40563031, 395>>, <<130259214, 63676714, 395>>, <<83628071, 25237099, 396>>,
      <<107380569, 13115777, 396>>, <<68939690, 3534694, 397>>, <<88520314, 16522517, 397>>,
      <<113662333, 25857904, 397>>, <<72972662, 33110750, 398>>, <<93698753, 24487169, 398>>,
      <<120311580, 55866202, 398>>, <<77241563, 57404077, 399>>, <<99180131, 14430192, 399>>,
      <<127349809, 20838606, 399>>, <<81760195, 65935939, 400>>, <<104982169, 47978093, 400>>,
      <<67399887, 7146936, 401>>, <<86543168, 8497819, 401>>, <<111123627, 34579183, 401>>,
      <<71342781, 4165712, 402>>, <<91605944, 12139444, 402>>, <<117624360, 43482759, 402>>,
      <<75516334, 23273521, 403>>, <<96964892, 45391353, 403>>, <<124505386, 48511382, 403>>,
      <<79934040, 35792820, 404>>, <<102637339, 47202726, 404>>, <<131788952, 59079148, 404>>,
      <<84610182, 38152391, 405>>, <<108641624, 62314825, 405>>, <<69749303, 57664357, 406>>,
      <<89559878, 63859034, 406>>, <<114997160, 59679792, 406>>, <<73829638, 47942182, 407>>,
      <<94799132, 41215271, 407>>, <<121724495, 50769691, 407>>, <<78148673, 12914438, 408>>,
      <<100344882, 44259441, 408>>, <<128845379, 51631474, 408>>, <<82720371, 14987229, 409>>,
      <<106215059, 8630016, 409>>, <<68191417, 52214394, 410>>, <<87559513, 42076926, 410>>,
      <<112428640, 65087431, 410>>, <<72180616, 19091951, 411>>, <<92681745, 60496837, 411>>,
      <<119005717, 26876188, 411>>, <<76403182, 62860308, 412>>, <<98103628, 54127000, 412>>,
      <<125967552, 57506692, 412>>, <<80872769, 51883114, 413>>, <<103842691, 60842269, 413>>,
      <<133336655, 50021276, 413>>, <<85603827, 31984259, 414>>, <<109917490, 16489331, 414>>,
      <<70568425, 40735711, 415>>, <<90611652, 6377900, 415>>, <<116347664, 22689237, 415>>,
      <<74696679, 6119294, 416>>, <<95912434, 33235584, 416>>, <<123154003, 44848689, 416>>,
      <<79066435, 29425539, 417>>, <<101523312, 47640709, 417>>, <<130358513, 60790675, 417>>,
      <<83691822, 38143199, 418>>, <<107462427, 23267853, 418>>, <<68992244, 1749722, 419>>,
      <<88587794, 59310853, 419>>, <<113748980, 16047086, 419>>, <<73028290, 58698177, 420>>,
      <<93770181, 41630515, 420>>, <<120403296, 35429866, 420>>, <<77300446, 33382423, 421>>,
      <<99255738, 1611944, 421>>, <<127446890, 25161891, 421>>, <<81822523, 17422838, 422>>,
      <<105062199, 35089658, 422>>, <<67451267, 17464824, 423>>, <<86609141, 36906774, 423>>,
      <<111208339, 4539713, 423>>, <<71397166, 64105309, 424>>, <<91675777, 3357513, 424>>,
      <<117714027, 55488181, 424>>, <<75573901, 54705417, 425>>, <<97038810, 51603198, 425>>,
      <<124600299, 29023295, 425>>, <<79994975, 46916093, 426>>, <<102715582, 333403, 426>>,
      <<131889417, 66052104, 426>>, <<84674682, 29659911, 427>>, <<108724444, 27209222, 427>>,
      <<69802475, 1068703, 428>>, <<89628152, 4574050, 428>>, <<115084825, 20553411, 428>>,
      <<73885920, 25780503, 429>>, <<94871399, 47555194, 429>>, <<121817288, 36414601, 429>>,
      <<78208247, 22840780, 430>>, <<100421377, 25475610, 430>>, <<128943600, 62694349, 430>>,
      <<82783430, 30829070, 431>>, <<106296028, 53046709, 431>>, <<68243401, 22143222, 432>>,
      <<87626261, 55625886, 432>>, <<112514347, 24000143, 432>>, <<72235640, 58694424, 433>>,
      <<92752398, 58635274, 433>>, <<119096437, 41113136, 433>>, <<76461426, 31258883, 434>>,
      <<98178414, 65651246, 434>>, <<126063580, 13571272, 434>>, <<80934420, 36853301, 435>>,
      <<103921853, 4698439, 435>>, <<133438300, 46384617, 435>>, <<85669084, 55267590, 436>>,
      <<110001282, 22670574, 436>>, <<70622221, 13086312, 437>>, <<90680726, 66929370, 437>>,
      <<116436358, 18004502, 437>>, <<74753621, 48420442, 438>>, <<95985550, 18783340, 438>>,
      <<123247886, 13028683, 438>>, <<79126709, 14304830, 439>>, <<101600705, 51576900, 439>>,
      <<130457888, 37596960, 439>>, <<83755622, 24117684, 440>>, <<107544347, 60394350, 440>>,
      <<69044838, 4182209, 441>>, <<88655326, 64633068, 441>>, <<113835693, 9757120, 441>>,
      <<73083961, 44457957, 442>>, <<93841664, 21934574, 442>>, <<120495082, 9392258, 442>>,
      <<77359374, 1797848, 443>>, <<99331402, 31504384, 443>>, <<127544045, 29931610, 443>>,
      <<81884898, 3350766, 444>>, <<105142290, 22749568, 444>>, <<67502686, 39058417, 445>>,
      <<86675165, 17851952, 445>>, <<111293115, 13232091, 445>>, <<71451594, 20653677, 446>>,
      <<91745663, 10336767, 446>>, <<117803763, 24202566, 446>>, <<75631513, 11292341, 447>>,
      <<97112785, 14133865, 447>>, <<124695284, 33270020, 447>>, <<80055957, 21262343, 448>>,
      <<102793883, 63893229, 448>>, <<131989959, 45266614, 448>>, <<84739231, 32537072, 449>>,
      <<108807327, 1148961, 449>>, <<69855686, 47373421, 450>>, <<89696477, 15473689, 450>>,
      <<115172556, 37004686, 450>>, <<73942244, 64321171, 451>>, <<94943721, 59969409, 451>>,
      <<121910152, 4451502, 451>>, <<78267866, 60580466, 452>>, <<100497930, 27717627, 452>>,
      <<129041896, 65420394, 452>>, <<82846537, 51448854, 453>>, <<106377060, 11875349, 453>>,
      <<68295424, 34216578, 454>>, <<87693060, 61347424, 454>>, <<112600119, 5429925, 454>>,
      <<72290707, 27580320, 455>>, <<92823105, 47381116, 455>>, <<119187226, 65930440, 455>>,
      <<76519714, 26507468, 456>>, <<98253258, 10794906, 456>>, <<126159680, 50393535, 456>>,
      <<80996118, 21655872, 457>>, <<104001074, 38882303, 457>>, <<133540023, 8239358, 457>>,
      <<85734391, 61562755, 458>>, <<110085138, 20545638, 458>>, <<70676057, 53173268, 459>>,
      <<90749854, 37356866, 459>>, <<116525119, 54456707, 459>>, <<74810607, 51019830, 460>>,
      <<96058721, 53822935, 460>>, <<123341840, 19349902, 460>>, <<79187028, 62789184, 461>>,
      <<101678157, 55387549, 461>>, <<130557338, 65076982, 461>>, <<83819470, 52755646, 462>>,
      <<107626330, 60578782, 462>>, <<69097472, 12881703, 463>>, <<88722910, 35120835, 463>>,
      <<113922472, 10367139, 463>>, <<73139674, 59668401, 464>>, <<93913201, 35293834, 464>>,
      <<120586937, 48439052, 464>>, <<77418346, 32055574, 465>>, <<99407124, 39947230, 465>>,
      <<127641274, 38933818, 465>>, <<81947320, 26150419, 466>>, <<105222442, 14078898, 466>>,
      <<67554145, 6822619, 467>>, <<86741239, 21015106, 467>>, <<111377955, 63959973, 467>>,
      <<71506063, 10149535, 468>>, <<91815602, 35800614, 468>>, <<117893567, 20231698, 468>>,
      <<75689168, 29497089, 469>>, <<97186816, 2974944, 469>>, <<124790341, 64953050, 469>>,
      <<80116985, 28316839, 470>>, <<102872245, 39606975, 470>>, <<132090578, 640707, 470>>,
      <<84803829, 49299298, 471>>, <<108890272, 54472775, 471>>, <<69908938, 64434398, 472>>,
      <<89764854, 32111664, 472>>, <<115260354, 45343569, 472>>, <<73998612, 31541381, 473>>,
      <<95016099, 14167390, 473>>, <<122003086, 25608073, 473>>, <<78327531, 61347959, 474>>,
      <<100574541, 53968700, 474>>, <<129140267, 63640129, 474>>, <<82909693, 12196958, 475>>,
      <<106458153, 22491392, 475>>, <<68347487, 23352901, 476>>, <<87759910, 61844645, 476>>,
      <<112685956, 12719233, 476>>, <<72345815, 62113265, 477>>, <<92893866, 29489751, 477>>,
      <<119278085, 37757224, 477>>, <<76578046, 50877496, 478>>, <<98328158, 26692287, 478>>,
      <<126255854, 37500712, 478>>, <<81057863, 8695141, 479>>, <<104080356, 32263329, 479>>,
      <<133641823, 6658401, 479>>, <<85799748, 53414720, 480>>, <<110169058, 13382322, 480>>,
      <<70729935, 28876817, 481>>, <<90819034, 54571961, 481>>, <<116613949, 1287089, 481>>,
      <<74867637, 16138155, 482>>, <<96131949, 6988078, 482>>, <<123435866, 364797, 482>>,
      <<79247394, 43011482, 483>>, <<101755668, 62090900, 483>>, <<130656865, 12888515, 483>>,
      <<83883367, 59436341, 484>>, <<107708376, 27015960, 484>>, <<69150146, 29899314, 485>>,
      <<88790545, 40516693, 485>>, <<114009317, 21258852, 485>>, <<73195430, 39391742, 486>>,
      <<93984793, 17387177, 486>>, <<120678863, 21932059, 486>>, <<77477363, 59344847, 487>>,
      <<99482904, 29891310, 487>>, <<127738577, 55957455, 487>>, <<82009790, 21145481, 488>>,
      <<105302655, 12201102, 488>>, <<67605642, 56980455, 489>>, <<86807363, 48971089, 489>>,
      <<111462861, 25811806, 489>>, <<71560573, 34715490, 490>>, <<91885595, 15365669, 490>>,
      <<117983439, 47075165, 490>>, <<75746867, 44457575, 491>>, <<97260903, 21011355, 491>>,
      <<124885471, 60667832, 491>>, <<80178060, 3348933, 492>>, <<102950666, 64746058, 492>>,
      <<132191273, 3204263, 492>>, <<84868477, 15355067, 493>>, <<108973281, 56195266, 493>>,
      <<69962231, 54326832, 494>>, <<89833283, 57152580, 494>>, <<115348219, 48991482, 494>>,
      <<74055022, 63855456, 495>>, <<95088531, 47187350, 495>>, <<122096091, 36397026, 495>>,
      <<78387242, 27468356, 496>>, <<100651211, 40105450, 496>>, <<129238713, 61186991, 496>>,
      <<82972896, 49752226, 497>>, <<106539308, 20946108, 497>>, <<68399589, 58689901, 498>>,
      <<87826811, 59722642, 498>>, <<112771858, 49213069, 498>>, <<72400966, 30223067, 499>>,
      <<92964681, 7718669, 499>>, <<119369013, 27243037, 499>>, <<76636423, 39533270, 500>>,
      <<98403115, 49153326, 500>>, <<126352101, 45749483, 500>>, <<81119655, 377251, 501>>,
      <<104159698, 55039935, 501>>, <<133743700, 45608811, 501>>, <<85865155, 33370389, 502>>,
      <<110253042, 4450918, 502>>, <<70783854, 9405393, 503>>, <<90888267, 54161689, 503>>,
      <<116702845, 63283843, 503>>, <<74924710, 13106677, 504>>, <<96205232, 15350105, 504>>,
      <<123529963, 26846338, 504>>, <<79307806, 24432991, 505>>, <<101833239, 7598634, 505>>,
      <<130756467, 19127744, 505>>, <<83947313, 46649788, 506>>, <<107790484, 30011994, 506>>,
      <<69202860, 57287714, 507>>, <<88858232, 16347463, 507>>, <<114096228, 45816542, 507>>,
      <<73251228, 52909601, 508>>, <<94056439, 38113339, 508>>, <<120770859, 562409, 508>>,
      <<77536426, 18856662, 509>>, <<99558742, 4289706, 509>>, <<127835955, 17685488, 509>>,
      <<82072307, 57879218, 510>>, <<105382929, 20242014, 510>>, <<67657179, 57321024, 511>>,
      <<86873538, 37187853, 511>>, <<111547831, 36314015, 511>>, <<71615125, 29366902, 512>>,
      <<91955641, 18868356, 512>>, <<118073380, 41126358, 512>>, <<75804610, 58422292, 513>>,
      <<97335047, 4021356, 513>>, <<124980674, 24121503, 513>>, <<80239181, 15847517, 514>>,
      <<103029148, 8148768, 514>>, <<132292044, 56881285, 514>>, <<84933174, 332503, 515>>,
      <<109056354, 9551228, 515>>, <<70015565, 19127502, 516>>, <<89901765, 26154212, 516>>,
      <<115436151, 51372455, 516>>, <<74111476, 29243941, 517>>, <<95161019, 27634196, 517>>,
      <<122189167, 40442697, 517>>, <<78446998, 28377391, 518>>, <<100727939, 56224502, 518>>,
      <<129337234, 61897338, 518>>, <<83036148, 32359920, 519>>, <<106620525, 10402043, 519>>,
      <<68451732, 8040244, 520>>, <<87893763, 57588490, 520>>, <<112857826, 51150122, 520>>,
      <<72456159, 1167759, 521>>, <<93035549, 51936324, 521>>, <<119460010, 37931264, 521>>,
      <<76694844, 61858550, 522>>, <<98478130, 13990186, 522>>, <<126448422, 11781658, 522>>,
      <<81181493, 66219046, 523>>, <<104239101, 43195163, 523>>, <<133845655, 61951810, 523>>,
      <<85930612, 3978609, 524>>, <<110337089, 64133071, 524>>, <<70837813, 63969028, 525>>,
      <<90957553, 38824006, 525>>, <<116791810, 42584619, 525>>, <<74981826, 44149480, 526>>,
      <<96278571, 14655936, 526>>, <<123624132, 35352561, 526>>, <<79368264, 9407908, 527>>,
      <<101910868, 29151326, 527>>, <<130856145, 20567218, 527>>, <<84011308, 16887904, 528>>,
      <<107872655, 5657706, 528>>, <<69255615, 29992278, 529>>, <<88925970, 32359702, 529>>,
      <<114183206, 20318213, 529>>, <<73307069, 35287523, 530>>, <<94128140, 33155455, 530>>,
      <<120862924, 55023964, 530>>, <<77595533, 47110361, 531>>, <<99634637, 33206611, 531>>,
      <<127933406, 62130363, 531>>, <<82134873, 4570161, 532>>, <<105463264, 41329851, 532>>,
      <<67708756, 9852680, 533>>, <<86939763, 55353040, 533>>, <<111632866, 31668955, 533>>,
      <<71669718, 63338480, 534>>, <<92025740, 49038313, 534>>, <<118163390, 5890201, 534>>,
      <<75862398, 6532581, 535>>, <<97409247, 22003133, 535>>, <<125075949, 26132890, 535>>,
      <<80300349, 1085572, 536>>, <<103107689, 7091181, 536>>, <<132392893, 31381041, 536>>,
      <<84997920, 6752788, 537>>, <<109139489, 51995651, 537>>, <<70068939, 28023635, 538>>,
      <<89970299, 8894093, 538>>, <<115524150, 55913129, 538>>, <<74167972, 64124509, 539>>,
      <<95233562, 25441581, 539>>, <<122282314, 41372184, 539>>, <<78506799, 66403707, 540>>,
      <<100804726, 38207028, 540>>, <<129435831, 2501591, 540>>, <<83099448, 29593775, 541>>,
      <<106701803, 61133014, 541>>, <<68503914, 7653597, 542>>, <<87960766, 58051253, 542>>,
      <<112943860, 21880497, 542>>, <<72511393, 44207017, 543>>, <<93106472, 30686682, 543>>,
      <<119551077, 6259126, 543>>, <<76753310, 53021105, 544>>, <<98553201, 58343849, 544>>,
      <<126544816, 6459631, 544>>, <<81243380, 7303751, 545>>, <<104318564, 66932141, 545>>,
      <<133947688, 59660513, 545>>, <<85996118, 34899032, 546>>, <<110421201, 61486333, 546>>,
      <<70891814, 60452763, 547>>, <<91026892, 11258920, 547>>, <<116880843, 9765162, 547>>,
      <<75038986, 44383485, 548>>, <<96351966, 7763533, 548>>, <<123718373, 29553162, 548>>,
      <<79428768, 292224, 549>>, <<101988556, 62665264, 549>>, <<130955899, 21091309, 549>>,
      <<84075351, 39753369, 550>>, <<107954888, 24264082, 550>>, <<69308410, 17177673, 551>>,
      <<88993760, 24084251, 551>>, <<114270250, 15262176, 551>>, <<73362952, 55810442, 552>>,
      <<94199896, 5307652, 552>>, <<120955060, 54686725, 552>>, <<77654686, 12191586, 553>>,
      <<99710590, 52490746, 553>>, <<128030932, 58871965, 553>>, <<82197485, 64983018, 554>>,
      <<105543661, 11486353, 554>>, <<67760371, 50803038, 555>>, <<87006039, 38938532, 555>>,
      <<111717966, 15190367, 555>>, <<71724354, 4539960, 556>>, <<92095893, 41498395, 556>>,
      <<118253468, 11983156, 556>>, <<75920229, 25258094, 557>>, <<97483504, 10739346, 557>>,
      <<125171297, 3305921, 557>>, <<80361563, 28555620, 558>>, <<103186289, 64633975, 558>>,
      <<132493818, 64851249, 558>>, <<85062715, 37139025, 559>>, <<109222688, 52550536, 559>>,
      <<70122354, 15986313, 560>>, <<90038885, 8042927, 560>>, <<115612216, 66042755, 560>>,
      <<74224512, 36481057, 561>>, <<95306160, 43436445, 561>>, <<122375532, 42815353, 561>>,
      <<78566647, 9659995, 562>>, <<100881571, 56154209, 562>>, <<129534502, 21059690, 562>>,
      <<83162796, 43920538, 563>>, <<106783144, 42088661, 563>>, <<68556135, 59563453, 564>>,
      <<88027820, 63721985, 564>>, <<113029959, 31865717, 564>>, <<72566670, 27275561, 565>>,
      <<93177449, 13842408, 565>>, <<119642213, 2884277, 565>>, <<76811821, 15299302, 566>>,
      <<98628330, 50922068, 566>>, <<126641283, 33539797, 566>>, <<81305313, 27369608, 567>>,
      <<104398088, 62238627, 567>>, <<134049799, 42711060, 567>>, <<86061674, 61575529, 568>>,
      <<110505377, 66897343, 568>>, <<70945857, 960974, 569>>, <<91096283, 41277366, 569>>,
      <<116969943, 35403861, 569>>, <<75096190, 16036169, 570>>, <<96425416, 64641899, 570>>,
      <<123812686, 13120631, 570>>, <<79489317, 66552588, 571>>, <<102066304, 44059043, 571>>,
      <<131055729, 24587350, 571>>, <<84139443, 50633035, 572>>, <<108037184, 21926823, 572>>,
      <<69361245, 20901270, 573>>, <<89061601, 61271691, 573>>, <<114357360, 34040463, 573>>,
      <<73418878, 49547220, 574>>, <<94271706, 24475052, 574>>, <<121047267, 3141159, 574>>,
      <<77713883, 50623188, 575>>, <<99786601, 65101948, 575>>, <<128128533, 11710802, 575>>,
      <<82260146, 40231171, 576>>, <<105624119, 953371, 576>>, <<67812026, 47965788, 577>>,
      <<87072365, 57635906, 577>>, <<111803130, 57303385, 577>>, <<71779030, 56427022, 578>>,
      <<92166099, 66091266, 578>>, <<118343614, 62915491, 578>>, <<75978104, 49743603, 579>>,
      <<97557817, 40232588, 579>>, <<125266717, 26465080, 579>>, <<80422824, 33534273, 580>>,
      <<103264950, 49622434, 580>>, <<132594821, 27007165, 580>>, <<85127560, 26907375, 581>>,
      <<109305951, 14458079, 581>>, <<70175809, 52205934, 582>>, <<90107523, 26273457, 582>>,
      <<115700350, 18084338, 582>>, <<74281095, 15625751, 583>>, <<95378814, 17339021, 583>>,
      <<122468821, 48404833, 583>>, <<78626539, 61805043, 584>>, <<100958475, 45951780, 584>>,
      <<129633248, 54307910, 584>>, <<83226193, 10699974, 585>>, <<106864547, 23547630, 585>>,
      <<68608397, 31587122, 586>>, <<88094926, 10104866, 586>>, <<113116124, 17352131, 586>>,
      <<72621989, 19636346, 587>>, <<93248480, 4169407, 587>>, <<119733418, 31358210, 587>>,
      <<76870376, 18082111, 588>>, <<98703516, 61761420, 588>>, <<126737824, 29672548, 588>>,
      <<81367293, 61721245, 589>>, <<104477673, 32213605, 589>>, <<134151988, 15082626, 589>>,
      <<86127281, 19453916, 590>>, <<110589618, 16537510, 590>>, <<70999940, 21817364, 591>>,
      <<91165727, 64474607, 591>>, <<117059111, 55864024, 591>>, <<75153437, 28445575, 592>>,
      <<96498923, 53935627, 592>>, <<123907070, 56839125, 592>>, <<79549914, 9221994, 593>>,
      <<102144111, 43471293, 593>>, <<131155635, 34945638, 593>>, <<84203584, 52024524, 594>>,
      <<108119543, 1852935, 594>>, <<69414120, 43222010, 595>>, <<89129495, 12348025, 595>>,
      <<114444537, 12938826, 595>>, <<73474847, 18677245, 596>>, <<94343571, 26347178, 596>>,
      <<121139543, 38198195, 596>>, <<77773126, 30494321, 597>>, <<99862671, 6893449, 597>>,
      <<128226207, 58668007, 597>>, <<82322854, 66974181, 598>>, <<105704638, 12866284, 598>>,
      <<67863721, 3353884, 599>>, <<87138742, 46920978, 599>>, <<111888360, 27109076, 599>>,
      <<71833749, 19803783, 600>>, <<92236359, 58443949, 600>>, <<118433830, 27982427, 600>>,
      <<76036024, 15135601, 601>>, <<97632187, 46269929, 601>>, <<125362210, 32219958, 601>>,
      <<80484132, 18408825, 602>>, <<103343671, 32230769, 602>>, <<132695900, 56002502, 602>>,
      <<85192454, 45693655, 603>>, <<109389277, 8071815, 603>>, <<70229306, 4547887, 604>>,
      <<90176213, 66260458, 604>>, <<115788550, 49690087, 604>>, <<74337721, 3763571, 605>>,
      <<95451523, 17089423, 605>>, <<122562181, 61776025, 605>>, <<78686478, 23846232, 606>>,
      <<101035438, 10596621, 606>>, <<129732070, 38985458, 606>>, <<83289637, 66620323, 607>>,
      <<106946012, 8682119, 607>>, <<68660698, 59978925, 608>>, <<88162082, 34032658, 608>>,
      <<113202354, 48806375, 608>>, <<72677350, 23445103, 609>>, <<93319565, 4435695, 609>>,
      <<119824693, 28126265, 609>>, <<76928975, 63651373, 610>>, <<98778760, 26682985, 610>>,
      <<126834438, 65728871, 610>>, <<81429321, 45665128, 611>>, <<104557318, 47067285, 611>>,
      <<67127127, 23933141, 612>>, <<86192937, 45308547, 612>>, <<110673922, 47907338, 612>>,
      <<71054064, 58020653, 613>>, <<91235225, 16447970, 613>>, <<117148348, 7511601, 613>>,
      <<75210728, 16733714, 614>>, <<96572486, 45618082, 614>>, <<124001527, 30169010, 614>>,
      <<79610556, 31988415, 615>>, <<102221977, 63934088, 615>>, <<131255617, 56059434, 615>>,
      <<84267774, 46427358, 616>>, <<108201964, 34360736, 616>>, <<69467036, 19091536, 617>>,
      <<89197440, 14176725, 617>>, <<114531780, 22463334, 617>>, <<73530858, 32490430, 618>>,
      <<94415491, 13724555, 618>>, <<121231890, 29236047, 618>>, <<77832414, 21222489, 619>>,
      <<99938798, 15047328, 619>>, <<128323957, 2223291, 619>>, <<82385611, 13438016, 620>>,
      <<105785218, 50362857, 620>>, <<67915454, 53199538, 621>>, <<87205170, 9380402, 621>>,
      <<111973654, 62146497, 621>>, <<71888509, 31020304, 622>>, <<92306673, 21294415, 622>>,
      <<118524114, 44917314, 622>>, <<76093987, 57908891, 623>>, <<97706614, 31749512, 623>>,
      <<125457776, 24291842, 623>>, <<80545486, 52677255, 624>>, <<103422452, 15526664, 624>>,
      <<132797057, 21558514, 624>>, <<85257398, 28917878, 625>>, <<109472666, 36638887, 625>>,
      <<70282843, 9314609, 626>>, <<90244956, 63571885, 626>>, <<115876818, 30079376, 626>>,
      <<74394390, 3101182, 627>>, <<95524287, 45521064, 627>>, <<122655613, 19458236, 627>>,
      <<78746462, 32337041, 628>>, <<101112459, 20196762, 628>>, <<129830967, 46052203, 628>>,
      <<83353131, 12827385, 629>>, <<107027539, 666745, 629>>, <<68713040, 12559278, 630>>,
      <<88229290, 3904663, 630>>, <<113288650, 62479918, 630>>, <<72732753, 40859209, 631>>,
      <<93390704, 17411396, 631>>, <<119916037, 63854215, 631>>, <<76987620, 20072943, 632>>,
      <<98854061, 15727804, 632>>, <<126931127, 11256027, 632>>, <<81491396, 48727293, 633>>,
      <<104637024, 42794513, 633>>, <<67178299, 38969202, 634>>, <<86258644, 7480271, 634>>,
      <<110758291, 30074374, 634>>, <<71108230, 44571166, 635>>, <<91304775, 34123436, 635>>,
      <<117237652, 28041788, 635>>, <<75268062, 50242028, 636>>, <<96646105, 42555951, 636>>,
      <<124096056, 3900046, 636>>, <<79671245, 2997307, 637>>, <<102299903, 41372952, 637>>,
      <<131355676, 24716105, 637>>, <<84332013, 36342967, 638>>, <<108284448, 55553260, 638>>,
      <<69519992, 17680793, 639>>, <<89265437, 2296692, 639>>, <<114619089, 66013783, 639>>,
      <<73586912, 26060621, 640>>, <<94487465, 56518701, 640>>, <<121324307, 46962262, 640>>,
      <<77891747, 25118093, 641>>, <<100014983, 25421335, 641>>, <<128421780, 47512453, 641>>,
      <<82448415, 16285964, 642>>, <<105865860, 49474388, 642>>, <<67967227, 65301045, 643>>,
      <<87271648, 14711665, 643>>, <<112059014, 31521778, 643>>, <<71943311, 25101682, 644>>,
      <<92377040, 24491585, 644>>, <<118614467, 50129594, 644>>, <<76151995, 46104542, 645>>,
      <<97781097, 66680553, 645>>, <<125553415, 6404857, 645>>, <<80606888, 4512772, 646>>,
      <<103501293, 2580140, 646>>, <<132898290, 61834917, 646>>, <<85322391, 46219714, 647>>,
      <<109556119, 36300050, 647>>, <<70336421, 1483532, 648>>, <<90313752, 20886595, 648>>,
      <<115965153, 29800791, 648>>, <<74451102, 15846927, 649>>, <<95597107, 38360651, 649>>,
      <<122749115, 59310140, 649>>, <<78806492, 22506141, 650>>, <<101189539, 10644790, 650>>,
      <<129929940, 12253222, 650>>, <<83416672, 53122031, 651>>, <<107109128, 2678545, 651>>,
      <<68765421, 25585607, 652>>, <<88296548, 56557632, 652>>, <<113375012, 61735653, 652>>,
      <<72788199, 6928820, 653>>, <<93461897, 45868749, 653>>, <<120007452, 7883956, 653>>,
      <<77046309, 23849872, 654>>, <<98929419, 31830290, 654>>, <<127027889, 4239606, 654>>,
      <<81553519, 6217890, 655>>, <<104716791, 22501364, 655>>, <<67229510, 54643637, 656>>,
      <<86324400, 42747344, 656>>, <<110842724, 33435266, 656>>, <<71162437, 50688565, 657>>,
      <<91374378, 53102458, 657>>, <<117327024, 53825836, 657>>, <<75325440, 64095933, 658>>,
      <<96719780, 47618105, 658>>, <<124190656, 48824803, 658>>, <<79731979, 58831383, 659>>,
      <<102377888, 45933450, 659>>, <<131455811, 11923715, 659>>, <<84396301, 24274686, 660>>,
      <<108366996, 1535990, 660>>, <<69572988, 41053432, 661>>, <<89333485, 46466570, 661>>,
      <<114706466, 12774830, 661>>, <<73643009, 1572196, 662>>, <<94559495, 23316683, 662>>,
      <<121416795, 27869402, 662>>, <<77951125, 44493293, 663>>, <<100091226, 40984342, 663>>,
      <<128519678, 64129873, 663>>, <<82511267, 10856582, 664>>, <<105946564, 13343428, 664>>,
      <<68019040, 41675965, 665>>, <<87338176, 65505363, 665>>, <<112144439, 5670174, 665>>,
      <<71998155, 4183503, 666>>, <<92447461, 3668743, 666>>, <<118704889, 47140253, 666>>,
      <<76210047, 49091936, 667>>, <<97855638, 19747886, 667>>, <<125649126, 49394833, 667>>,
      <<80668336, 10525860, 668>>, <<103580193, 63572426, 668>>, <<132999601, 46558973, 668>>,
      <<85387434, 33023033, 669>>, <<109639636, 10307399, 669>>, <<70390039, 50251406, 670>>,
      <<90382600, 7994353, 670>>, <<116053555, 52296674, 670>>, <<74507857, 44210835, 671>>,
      <<95669982, 65554779, 671>>, <<122842689, 50757729, 671>>, <<78866567, 63801709, 672>>,
      <<101266677, 52053309, 672>>, <<130028988, 8554255, 672>>, <<83480262, 55762699, 673>>,
      <<107190779, 17896977, 673>>, <<68817842, 33990300, 674>>, <<88363858, 60394859, 674>>,
      <<113461440, 49939036, 674>>, <<72843686, 58032330, 675>>, <<93533145, 25473238, 675>>,
      <<120098935, 65104415, 675>>, <<77105043, 10160360, 676>>, <<99004835, 10818229, 676>>,
      <<127124724, 48450341, 676>>, <<81615688, 54775505, 677>>, <<104796618, 56405146, 677>>,
      <<67280761, 5843243, 678>>, <<86390207, 19454515, 678>>, <<110927221, 61280299, 678>>,
      <<71216686, 11376393, 679>>, <<91444035, 8988556, 679>>, <<117416465, 21237652, 679>>,
      <<75382862, 60531410, 680>>, <<96793511, 63675602, 680>>, <<124285329, 34412062, 680>>,
      <<79792761, 530838, 681>>, <<102455933, 13545732, 681>>, <<131556022, 21584437, 681>>,
      <<84460638, 12727762, 682>>, <<108449606, 9743451, 682>>, <<69626025, 24165815, 683>>,
      <<89401586, 15120432, 683>>, <<114793909, 369185, 683>>, <<73699148, 28320057, 684>>,
      <<94631579, 51143161, 684>>, <<121509353, 42670503, 684>>, <<78010549, 14553149, 685>>,
      <<100167527, 64707488, 685>>, <<128617651, 55890568, 685>>, <<82574166, 66708023, 686>>,
      <<106027329, 12223790, 686>>, <<68070892, 51452258, 687>>, <<87404756, 30136341, 687>>,
      <<112229928, 55029479, 687>>, <<72053040, 37511845, 688>>, <<92517935, 28678990, 688>>,
      <<118795380, 39472962, 688>>, <<76268144, 2024450, 689>>, <<97930235, 28074015, 689>>,
      <<125744911, 22773846, 689>>, <<80729831, 6002239, 690>>, <<103659155, 251632, 690>>,
      <<133100989, 46787547, 690>>, <<85452526, 58971364, 691>>, <<109723216, 29024374, 691>>,
      <<70443699, 23489983, 692>>, <<90451500, 27578100, 692>>, <<116142025, 33903129, 692>>,
      <<74564656, 23295754, 693>>, <<95742913, 62834480, 693>>, <<122936334, 64556365, 693>>,
      <<78926689, 24347116, 694>>, <<101343875, 13210621, 694>>, <<130128111, 38815123, 694>>,
      <<83543901, 23227440, 695>>, <<107272492, 49503924, 695>>, <<68870303, 39816167, 696>>,
      <<88431220, 18039361, 696>>, <<113547934, 30458090, 696>>, <<72899216, 62114324, 697>>,
      <<93604447, 26110194, 697>>, <<120190489, 37754053, 697>>, <<77163821, 48402081, 698>>,
      <<99080308, 22739372, 698>>, <<127221634, 13444111, 698>>, <<81677905, 62605115, 699>>,
      <<104876507, 13398945, 699>>, <<67332050, 28782929, 700>>, <<86456064, 7275081, 700>>,
      <<111011783, 49793407, 700>>, <<71270975, 62966394, 701>>, <<91513744, 38713909, 701>>,
      <<117505974, 871524, 701>>, <<75440328, 41786146, 702>>, <<96867299, 26492824, 702>>,
      <<124380074, 31460011, 702>>, <<79853588, 31790854, 703>>, <<102534037, 14359994, 703>>,
      <<131656309, 57603417, 703>>, <<84525024, 4209346, 704>>, <<108532279, 16286029, 704>>,
      <<69679102, 36193604, 705>>, <<89469738, 45129830, 705>>, <<114881418, 32204423, 705>>,
      <<73755330, 41383048, 706>>, <<94703719, 8589477, 706>>, <<121601982, 27863619, 706>>,
      <<78070018, 4722214, 707>>, <<100243887, 32455311, 707>>, <<128715699, 26612462, 707>>,
      <<82637114, 52073715, 708>>, <<106108155, 49262822, 708>>, <<68122784, 29541697, 709>>,
      <<87471386, 45416874, 709>>, <<112315483, 48713429, 709>>, <<72107967, 60116687, 710>>,
      <<92588463, 35159791, 710>>, <<118885940, 30654076, 710>>, <<76326284, 41383777, 711>>,
      <<98004889, 27457065, 711>>, <<125840768, 64492274, 711>>, <<80791372, 60447181, 712>>,
      <<103738176, 17021400, 712>>, <<133202454, 66471646, 712>>, <<85517668, 59492442, 713>>,
      <<109806860, 28599166, 713>>, <<70497399, 57508061, 714>>, <<90520453, 15213962, 714>>,
      <<116230562, 45176614, 714>>, <<74621498, 22423949, 715>>, <<95815900, 33041815, 715>>,
      <<123030051, 37246462, 715>>, <<78986856, 40702974, 716>>, <<101421131, 31342775, 716>>,
      <<130227310, 39789721, 716>>, <<83607588, 25105061, 717>>, <<107354268, 33574829, 717>>,
      <<68922804, 45107573, 718>>, <<88498632, 66333886, 718>>, <<113634494, 6663406, 718>>,
      <<72954789, 21338764, 719>>, <<93675803, 50558198, 719>>, <<120282112, 63618366, 719>>,
      <<77222645, 6647860, 720>>, <<99155839, 3425986, 720>>, <<127318617, 37215127, 720>>,
      <<81740170, 32131270, 721>>, <<104956456, 30813673, 721>>, <<67383378, 58352536, 722>>,
      <<86521971, 8775428, 722>>, <<111096410, 2269895, 722>>, <<71325307, 6247605, 723>>,
      <<91583507, 10777311, 723>>, <<117595550, 63324397, 723>>, <<75497838, 10099534, 724>>,
      <<96941143, 6054074, 724>>, <<124474891, 43660783, 724>>, <<79914462, 20764103, 725>>,
      <<102612200, 51419886, 725>>, <<131756673, 56779917, 725>>, <<84589459, 1228506, 726>>,
      <<108615015, 24385429, 726>>, <<69732220, 12096311, 727>>, <<89537943, 4932881, 727>>,
      <<114968994, 44581853, 727>>, <<73811555, 42950545, 728>>, <<94775913, 32684573, 728>>,
      <<121694681, 54167284, 728>>, <<78129532, 17317941, 729>>, <<100320305, 14312343, 729>>,
      <<128813821, 47225252, 729>>, <<82700110, 36515546, 730>>, <<106189043, 60501403, 730>>,
      <<68174715, 45075321, 731>>, <<87538067, 46834626, 731>>, <<112401103, 57164896, 731>>,
      <<72162937, 7029639, 732>>, <<92659045, 25859570, 732>>, <<118976569, 24212642, 732>>,
      <<76384469, 35217882, 733>>, <<98079600, 20806241, 733>>, <<125936699, 44067881, 733>>,
      <<80852961, 42041191, 734>>, <<103817257, 49852261, 734>>, <<133303997, 42456427, 734>>,
      <<85582860, 37124798, 735>>, <<109890568, 12291314, 735>>, <<70551141, 20180577, 736>>,
      <<90589458, 40697839, 736>>, <<116319167, 22458487, 736>>, <<74678383, 43810504, 737>>,
      <<95888942, 46129875, 737>>, <<123123839, 39588944, 737>>, <<79047069, 48105085, 738>>,
      <<101498446, 42351521, 738>>, <<130326585, 15343756, 738>>, <<83671323, 63877393, 739>>,
      <<107436106, 40405292, 739>>, <<68975345, 51910444, 740>>, <<88566097, 6578859, 740>>,
      <<113721119, 49037006, 740>>, <<73010404, 4980125, 741>>, <<93747214, 34489086, 741>>,
      <<120373806, 12050118, 741>>, <<77281513, 21407725, 742>>, <<99231427, 22930305, 742>>,
      <<127415674, 56433890, 742>>, <<81802482, 32889234, 743>>, <<105036466, 44656025, 743>>,
      <<67434746, 29443427, 744>>, <<86587928, 26523901, 744>>, <<111181100, 56225310, 744>>,
      <<71379679, 44663859, 745>>, <<91653322, 62115080, 745>>, <<117685196, 10760420, 745>>,
      <<75555391, 34821538, 746>>, <<97015043, 5236979, 746>>, <<124569781, 7600464, 746>>,
      <<79975382, 36931651, 747>>, <<102690423, 60662515, 747>>, <<131857114, 23025040, 747>>,
      <<84653943, 6296218, 748>>, <<108697814, 37265809, 748>>, <<69785378, 21052750, 749>>,
      <<89606199, 31405183, 749>>, <<115056637, 40914248, 749>>, <<73867823, 35213589, 750>>,
      <<94848162, 59132941, 750>>, <<121787451, 58085053, 750>>, <<78189091, 54659549, 751>>,
      <<100396781, 13256521, 751>>, <<128912018, 54443823, 751>>, <<82763154, 22488411, 752>>,
      <<106269993, 49091680, 752>>, <<68226686, 32967986, 753>>, <<87604799, 36988101, 753>>,
      <<112486789, 16611562, 753>>, <<72217948, 14610535, 754>>, <<92729681, 3528844, 754>>,
      <<119067267, 23680394, 754>>, <<76442698, 52903047, 755>>, <<98154368, 11032968, 755>>,
      <<126032703, 32347874, 755>>, <<80914597, 20293198, 756>>, <<103896399, 34717091, 756>>,
      <<133405617, 45807789, 756>>, <<85648101, 61517763, 757>>, <<109974339, 50471706, 757>>,
      <<70604923, 47819521, 758>>, <<90658516, 39609951, 758>>, <<116407839, 36310464, 758>>,
      <<74735312, 22563332, 759>>, <<95962040, 37836192, 759>>, <<123217699, 8129792, 759>>,
      <<79107328, 48899908, 760>>, <<101575820, 49249770, 760>>, <<130425935, 36454743, 760>>,
      <<83735108, 7810432, 761>>, <<107518007, 6075613, 761>>, <<69027926, 62272263, 762>>,
      <<88633612, 42729895, 762>>, <<113807811, 26736893, 762>>, <<73066061, 15205669, 763>>,
      <<93818679, 47794541, 763>>, <<120465569, 20840245, 763>>, <<77340426, 27866858, 764>>,
      <<99307073, 17089078, 764>>, <<127512806, 7773778, 764>>, <<81864842, 198391, 765>>,
      <<105116537, 58043934, 765>>, <<67486153, 11166219, 766>>, <<86653935, 63090800, 766>>,
      <<111265856, 13633393, 766>>, <<71434093, 46116283, 767>>, <<91723191, 61230154, 767>>,
      <<117774909, 47999587, 767>>, <<75612988, 51086102, 768>>, <<97088999, 26921364, 768>>,
      <<124664742, 61194548, 768>>, <<80036349, 15558647, 769>>, <<102768706, 45136174, 769>>,
      <<131957631, 27361734, 769>>, <<84718476, 21925377, 770>>, <<108780676, 58153787, 770>>,
      <<69838576, 65134452, 771>>, <<89674507, 60097770, 771>>, <<115144347, 24616984, 771>>,
      <<73924134, 20364897, 772>>, <<94920467, 23641216, 772>>, <<121880292, 43232101, 772>>,
      <<78248696, 51959162, 773>>, <<100473315, 32268054, 773>>, <<129010290, 52094835, 773>>,
      <<82826246, 12449074, 774>>, <<106351005, 18188204, 774>>, <<68278696, 62353816, 775>>,
      <<87671582, 18477787, 775>>, <<112572539, 64610245, 775>>, <<72273001, 17894249, 776>>,
      <<92800370, 38029092, 776>>, <<119158034, 32591760, 776>>, <<76500972, 29599556, 777>>,
      <<98229193, 1050889, 777>>, <<126128780, 33073444, 777>>, <<80976279, 64713957, 778>>,
      <<103975601, 41808846, 778>>, <<133507315, 13376920, 778>>, <<85713393, 996011, 779>>,
      <<110058175, 12187124, 779>>, <<70658747, 8303022, 780>>, <<90727627, 14641431, 780>>,
      <<116496579, 23079165, 780>>, <<74792284, 28009760, 781>>, <<96035194, 11009330, 781>>,
      <<123311630, 13635499, 781>>, <<79167633, 45435688, 782>>, <<101653253, 55052726, 782>>,
      <<130525361, 39885420, 782>>, <<83798940, 60716388, 783>>, <<107599970, 886254, 783>>,
      <<69080548, 11133213, 784>>, <<88701179, 43200292, 784>>, <<113894569, 10250236, 784>>,
      <<73121760, 54184311, 785>>, <<93890199, 26150640, 785>>, <<120557402, 26455821, 785>>,
      <<77399384, 28321055, 786>>, <<99382776, 55959032, 786>>, <<127610011, 29237649, 786>>,
      <<81927249, 3597704, 787>>, <<105196670, 6988846, 787>>, <<67537599, 5524190, 788>>,
      <<86719993, 53939522, 788>>, <<111350676, 12014718, 788>>, <<71488549, 12725348, 789>>,
      <<91793114, 10845268, 789>>, <<117864691, 44320235, 789>>, <<75670629, 61137744, 790>>,
      <<97163012, 6880382, 790>>, <<124759777, 6817026, 790>>, <<80097362, 26129778, 791>>,
      <<102847049, 7891478, 791>>, <<132058225, 6598205, 791>>, <<84783058, 50630788, 792>>,
      <<108863602, 23169578, 792>>, <<69891816, 12196796, 793>>, <<89742868, 26563701, 793>>,
      <<115232123, 66216903, 793>>, <<73980488, 598852, 794>>, <<94992826, 63244775, 794>>,
      <<121973204, 13226359, 794>>, <<78308347, 11539538, 795>>, <<100549908, 7220555, 795>>,
      <<129108637, 44007868, 795>>, <<82889386, 8856175, 796>>, <<106432078, 38056792, 796>>,
      <<68330747, 1041888, 797>>, <<87738415, 61015015, 797>>, <<112658356, 3175989, 797>>,
      <<72328096, 19026155, 798>>, <<92871113, 65006165, 798>>, <<119248870, 54483862, 798>>,
      <<76559290, 34687150, 799>>, <<98304074, 60884730, 799>>, <<126224930, 49988635, 799>>,
      <<81038009, 43489465, 800>>, <<104054864, 7105104, 800>>, <<133609090, 16235752, 800>>,
      <<85778733, 59430477, 801>>, <<110142074, 34922295, 801>>, <<70712611, 37946262, 802>>,
      <<90796790, 35594328, 802>>, <<116585386, 53331573, 802>>, <<74849299, 62369945, 803>>,
      <<96108403, 35608890, 803>>, <<123405632, 59766483, 803>>, <<79227984, 40062458, 804>>,
      <<101730745, 62777895, 804>>, <<130624863, 29510340, 804>>, <<83862822, 23756180, 805>>,
      <<107681995, 28031241, 805>>, <<69133209, 34761627, 806>>, <<88768798, 10623082, 806>>,
      <<113981393, 2957915, 806>>, <<73177502, 56977754, 807>>, <<93961773, 39453312, 807>>,
      <<120649305, 32475505, 807>>, <<77458387, 25067862, 808>>, <<99458538, 8272544, 808>>,
      <<127707290, 57504649, 808>>, <<81989703, 45519127, 809>>, <<105276863, 28831176, 809>>,
      <<67589084, 14522147, 810>>, <<86786102, 1644290, 810>>, <<111435560, 54674652, 810>>,
      <<71543046, 13722005, 811>>, <<91863089, 47902966, 811>>, <<117954542, 3221093, 811>>,
      <<75728315, 113830, 812>>, <<97237081, 15107112, 812>>, <<124854883, 49497896, 812>>,
      <<80158422, 3913813, 813>>, <<102925451, 19090233, 813>>, <<132158895, 31763372, 813>>,
      <<84847690, 27820314, 814>>, <<108946591, 2653583, 814>>, <<69945095, 65641065, 815>>,
      <<89811281, 575794, 815>>, <<115319967, 34916861, 815>>, <<74036884, 45220378, 816>>,
      <<95065241, 46545683, 816>>, <<122066186, 38797378, 816>>, <<78368043, 2834068, 817>>,
      <<100626559, 8207642, 817>>, <<129207059, 34015421, 817>>, <<82952574, 14170225, 818>>,
      <<106513213, 44747941, 818>>, <<68382836, 52387144, 819>>, <<87805300, 32986511, 819>>,
      <<112744237, 36979571, 819>>, <<72383233, 20153261, 820>>, <<92941911, 20108010, 820>>,
      <<119339776, 25787653, 820>>, <<76617653, 3329573, 821>>, <<98379013, 59234852, 821>>,
      <<126321154, 19731481, 821>>, <<81099786, 26134140, 822>>, <<104134187, 803524, 822>>,
      <<133710942, 58350378, 822>>, <<85844124, 38040848, 823>>, <<110226037, 54837845, 823>>,
      <<70766517, 4630567, 824>>, <<90866006, 38055018, 824>>, <<116674261, 63419578, 824>>,
      <<74906358, 60756872, 825>>, <<96181668, 47378918, 825>>, <<123499707, 15968226, 825>>,
      <<79288381, 35132046, 826>>, <<101808297, 8336219, 826>>, <<130724441, 9207009, 826>>,
      <<83926752, 33636946, 827>>, <<107764083, 23598176, 827>>, <<69185911, 991948, 828>>,
      <<88836468, 14742167, 828>>, <<114068283, 8243385, 828>>, <<73233287, 25758220, 829>>,
      <<94033402, 23382881, 829>>, <<120741278, 42480686, 829>>, <<77517435, 20406576, 830>>,
      <<99534357, 11199699, 830>>, <<127804644, 29256815, 830>>, <<82052205, 61287601, 831>>,
      <<105357117, 59587131, 831>>, <<67640608, 40166424, 832>>, <<86852260, 42999013, 832>>,
      <<111520510, 10703353, 832>>, <<71597584, 51229958, 833>>, <<91933118, 40912410, 833>>,
      <<118044460, 62421287, 833>>, <<75786044, 4480028, 834>>, <<97311206, 54487968, 834>>,
      <<124950062, 58725660, 834>>, <<80219528, 18399062, 835>>, <<103003913, 14678845, 835>>,
      <<132259642, 39671413, 835>>, <<84912371, 23121463, 836>>, <<109029642, 66948669, 836>>,
      <<69998416, 26216937, 837>>, <<89879745, 51908897, 837>>, <<115407878, 1248913, 837>>,
      <<74093324, 22209480, 838>>, <<95137711, 43474749, 838>>, <<122159239, 56459742, 838>>,
      <<78427784, 28169052, 839>>, <<100703268, 38216343, 839>>, <<129305556, 25952913, 839>>,
      <<83015810, 30853615, 840>>, <<106594410, 41423421, 840>>, <<68434966, 17092887, 841>>,
      <<87872236, 4107576, 841>>, <<112830184, 35149995, 841>>, <<72438412, 23424212, 842>>,
      <<93012762, 40311271, 842>>, <<119430751, 17154516, 842>>, <<76676060, 4910030, 843>>,
      <<98454009, 66130429, 843>>, <<126417451, 13160599, 843>>, <<81161610, 15055373, 844>>,
      <<104213570, 25995255, 844>>, <<133812873, 9472184, 844>>, <<85909565, 6484212, 845>>,
      <<110310065, 8096891, 845>>, <<70820463, 44674319, 846>>, <<90935275, 24720793, 846>>,
      <<116763204, 56806573, 846>>, <<74963461, 25394081, 847>>, <<96254989, 49174500, 847>>,
      <<123593853, 20124457, 847>>, <<79348824, 32998071, 848>>, <<101885907, 28967531, 848>>,
      <<130824094, 49964755, 848>>, <<83990731, 25741127, 849>>, <<107846233, 57894823, 849>>,
      <<69238652, 46095639, 850>>, <<88904189, 58194595, 850>>, <<114155239, 29492684, 850>>,
      <<73289114, 29808452, 851>>, <<94105085, 47839527, 851>>, <<120833321, 60055486, 851>>,
      <<77576528, 16638248, 852>>, <<99610234, 586240, 852>>, <<127902072, 15396803, 852>>,
      <<82114755, 53338789, 853>>, <<105437433, 35275298, 853>>, <<67692172, 17356019, 854>>,
      <<86918469, 46364114, 854>>, <<111605524, 17628955, 854>>, <<71652164, 60265666, 855>>,
      <<92003200, 59711433, 855>>, <<118134448, 24098291, 855>>, <<75843817, 9377130, 856>>,
      <<97385388, 60802700, 856>>, <<125045314, 38209372, 856>>, <<80280681, 4857921, 857>>,
      <<103082434, 64823776, 857>>, <<132360466, 34248362, 857>>, <<84977101, 39054797, 858>>,
      <<109112758, 17964711, 858>>, <<70051777, 30219993, 859>>, <<89948262, 49013298, 859>>,
      <<115495855, 35747724, 859>>, <<74149807, 874427, 860>>, <<95210236, 56856068, 860>>,
      <<122252364, 2730799, 860>>, <<78487571, 22763699, 861>>, <<100780036, 33127099, 861>>,
      <<129404128, 23658688, 861>>, <<83079094, 61370608, 862>>, <<106675669, 31247411, 862>>,
      <<68487135, 31408290, 863>>, <<87939222, 44095501, 863>>, <<112916197, 1036545, 863>>,
      <<72493633, 30989290, 864>>, <<93083667, 61268101, 864>>, <<119521795, 32129666, 864>>,
      <<76734511, 41704596, 865>>, <<98529063, 17385135, 865>>, <<126513821, 34028602, 865>>,
      <<81223481, 12662388, 866>>, <<104293014, 18664939, 866>>, <<133914881, 7791038, 866>>,
      <<85975055, 34419596, 867>>, <<110394156, 32191638, 867>>, <<70874451, 25962046, 868>>,
      <<91004596, 65399866, 868>>, <<116852215, 36958591, 868>>, <<75020607, 25615676, 869>>,
      <<96328366, 43852895, 869>>, <<123688071, 8795107, 869>>, <<79409313, 36015947, 870>>,
      <<101963576, 60587380, 870>>, <<130923824, 21449268, 870>>, <<84054759, 2561930, 871>>,
      <<107928446, 67013656, 871>>, <<69291434, 37910273, 872>>, <<88971963, 9401696, 872>>,
      <<114242262, 2985565, 872>>, <<73344984, 4195121, 873>>, <<94176823, 48507827, 873>>,
      <<120925435, 21677889, 873>>, <<77635666, 16065682, 874>>, <<99686168, 46497891, 874>>,
      <<127999574, 19721294, 874>>, <<82177353, 24110208, 875>>, <<105517810, 26134376, 875>>,
      <<67743775, 15209192, 876>>, <<86984729, 14319704, 876>>, <<111690603, 11655527, 876>>,
      <<71706786, 42956075, 877>>, <<92073336, 39922222, 877>>, <<118224504, 25976569, 877>>,
      <<75901634, 17056505, 878>>, <<97459627, 36942126, 878>>, <<125140638, 58769776, 878>>,
      <<80341880, 32782329, 879>>, <<103161016, 38367226, 879>>, <<132461367, 19423247, 879>>,
      <<85041881, 11033937, 880>>, <<109195936, 60267238, 880>>, <<70105179, 12620806, 881>>,
      <<90016831, 61667913, 881>>, <<115583900, 7623980, 881>>, <<74206332, 50525171, 882>>,
      <<95282817, 22407026, 882>>, <<122345559, 15457250, 882>>, <<78547403, 56056721, 883>>,
      <<100856862, 63040358, 883>>, <<129502775, 30974017, 883>>, <<83142427, 41078485, 884>>,
      <<106756990, 17386502, 884>>, <<68539344, 30257480, 885>>, <<88006260, 21342969, 885>>,
      <<113002275, 5099923, 885>>, <<72548896, 45000418, 886>>, <<93154627, 18632760, 886>>,
      <<119612909, 7152160, 886>>, <<76793007, 48882215, 887>>, <<98604173, 50141464, 887>>,
      <<126610265, 18982099, 887>>, <<81285399, 21366247, 888>>, <<104372518, 49017306, 888>>,
      <<134016966, 57282108, 888>>, <<86040595, 57290246, 889>>, <<110478311, 63290194, 889>>,
      <<70928480, 17706469, 890>>, <<91073971, 28575916, 890>>, <<116941294, 7344308, 890>>,
      <<75077796, 63648589, 891>>, <<96401799, 34273544, 891>>, <<123782360, 52760634, 891>>,
      <<79469848, 46542883, 892>>, <<102041305, 39113618, 892>>, <<131023629, 61764660, 892>>,
      <<84118835, 33703323, 893>>, <<108010722, 54158456, 893>>, <<69344256, 45601580, 894>>,
      <<89039788, 5222268, 894>>, <<114329350, 66330956, 894>>, <<73400896, 18204285, 895>>,
      <<94248616, 28183355, 895>>, <<121017618, 65155212, 895>>, <<77694849, 20993438, 896>>,
      <<99762161, 17676036, 896>>, <<128097150, 46029866, 896>>, <<82239998, 43150099, 897>>,
      <<105598248, 35296588, 897>>, <<67795417, 35736868, 898>>, <<87051039, 16556728, 898>>,
      <<111775746, 63207388, 898>>, <<71761450, 1429748, 899>>, <<92143525, 51386771, 899>>,
      <<118314629, 4456670, 899>>, <<75959495, 29771240, 900>>, <<97533922, 52908128, 900>>,
      <<125236035, 57012720, 900>>, <<80403126, 37448314, 901>>, <<103239658, 5480322, 901>>,
      <<132562344, 66236953, 901>>, <<85106710, 8692157, 902>>, <<109279178, 62879924, 902>>,
      <<70158621, 42609263, 903>>, <<90085453, 25435963, 903>>, <<115672011, 54526433, 903>>,
      <<74262901, 39146744, 904>>, <<95355453, 10064889, 904>>, <<122438825, 31161974, 904>>,
      <<78607281, 63270879, 905>>, <<100933747, 63841121, 905>>, <<129601497, 51743097, 905>>,
      <<83205808, 39554134, 906>>, <<106838373, 3009701, 906>>, <<68591593, 15674999, 907>>,
      <<88073349, 5571250, 907>>, <<113088418, 50694520, 907>>, <<72604202, 502295, 908>>,
      <<93225640, 49388205, 908>>, <<119704092, 12881486, 908>>, <<76851548, 28722435, 909>>,
      <<98679341, 33108681, 909>>, <<126706782, 38888291, 909>>, <<81347364, 43579850, 910>>,
      <<104452083, 53041714, 910>>, <<134119130, 27705867, 910>>, <<86106186, 10541351, 911>>,
      <<110562531, 37563166, 911>>, <<70982550, 22013050, 912>>, <<91143398, 51170138, 912>>,
      <<117030440, 38543906, 912>>, <<75135030, 7503723, 913>>, <<96475288, 23298065, 913>>,
      <<123876722, 21477701, 913>>, <<79530429, 66937886, 914>>, <<102119093, 34684133, 914>>,
      <<131123511, 40582544, 914>>, <<84182960, 54553451, 915>>, <<108093061, 22535443, 915>>,
      <<69397119, 4119131, 916>>, <<89107664, 48299394, 916>>, <<114416506, 21596052, 916>>,
      <<73456851, 6905934, 917>>, <<94320463, 56772678, 917>>, <<121109872, 59862047, 917>>,
      <<77754077, 33727831, 918>>, <<99838211, 51299772, 918>>, <<128194801, 31016126, 918>>,
      <<82302691, 45790834, 919>>, <<105678747, 65896541, 919>>, <<67847099, 13842642, 920>>,
      <<87117399, 55659234, 920>>, <<111860955, 41384795, 920>>, <<71816155, 4925738, 921>>,
      <<92213768, 29731433, 921>>, <<118404822, 30159542, 921>>, <<76017400, 49776139, 922>>,
      <<97608274, 44487068, 922>>, <<125331505, 36655748, 922>>, <<80464419, 21242586, 923>>,
      <<103318359, 36336524, 923>>, <<132663399, 44406771, 923>>, <<85171588, 34555787, 924>>,
      <<109362484, 29046646, 924>>, <<70212104, 55159110, 925>>, <<90154127, 10100434, 925>>,
      <<115760190, 45670999, 925>>, <<74319513, 36052452, 926>>, <<95428144, 22660215, 926>>,
      <<122532162, 53479479, 926>>, <<78667205, 46739573, 927>>, <<101010691, 38525534, 927>>,
      <<129700295, 22704193, 927>>, <<83269237, 59267461, 928>>, <<106919817, 58397293, 928>>,
      <<68643881, 56805804, 929>>, <<88140488, 66503601, 929>>, <<113174628, 6959559, 929>>,
      <<72659549, 33867852, 930>>, <<93296708, 22084044, 930>>, <<119795344, 52870975, 930>>,
      <<76910133, 50615402, 931>>, <<98754566, 36324879, 931>>, <<126803373, 30399513, 931>>,
      <<81409377, 14609072, 932>>, <<104531709, 33838750, 932>>, <<67110685, 62185068, 933>>,
      <<86171826, 30946640, 933>>, <<110646815, 25401387, 933>>, <<71036661, 40988856, 934>>,
      <<91212879, 1670331, 934>>, <<117119654, 66922488, 934>>, <<75192306, 60738001, 935>>,
      <<96548833, 13790259, 935>>, <<123971155, 52841229, 935>>, <<79591057, 32452895, 936>>,
      <<102196940, 50330257, 936>>, <<131223469, 28904094, 936>>, <<84247135, 502361, 937>>,
      <<108175462, 42462149, 937>>, <<69450021, 49740660, 938>>, <<89175593, 7060443, 938>>,
      <<114503728, 6394953, 938>>, <<73512848, 39589446, 939>>, <<94392366, 2857903, 939>>,
      <<121202197, 9393456, 939>>, <<77813350, 56576938, 940>>, <<99914320, 16114999, 940>>,
      <<128292526, 45594312, 940>>, <<82365432, 34475511, 941>>, <<105759308, 53962370, 941>>,
      <<67898820, 18649371, 942>>, <<87183810, 67104377, 942>>, <<111946229, 16617124, 942>>,
      <<71870901, 55575856, 943>>, <<92284064, 44802372, 943>>, <<118495084, 39491085, 943>>,
      <<76075350, 12218860, 944>>, <<97682683, 14576379, 944>>, <<125427048, 1419236, 944>>,
      <<80525758, 53662538, 945>>, <<103397120, 66893899, 945>>, <<132764531, 24979584, 945>>,
      <<85236516, 24044223, 946>>, <<109445853, 29122613, 946>>, <<70265628, 52354542, 947>>,
      <<90222853, 18337489, 947>>, <<115848436, 51602800, 947>>, <<74376168, 43448418, 948>>,
      <<95500890, 63025723, 948>>, <<122625571, 18938183, 948>>, <<78727175, 8797985, 949>>,
      <<101087693, 57200893, 949>>, <<129799168, 14816230, 949>>, <<83332715, 35581390, 950>>,
      <<107001324, 52505388, 950>>, <<68696210, 21469813, 951>>, <<88207680, 5429819, 951>>,
      <<113260903, 11472276, 951>>, <<72714939, 13036210, 952>>, <<93367830, 6598588, 952>>,
      <<119886666, 63567804, 952>>, <<76968763, 49735276, 953>>, <<98829848, 62721516, 953>>,
      <<126900037, 64388699, 953>>, <<81471437, 3979356, 954>>, <<104611395, 61620229, 954>>,
      <<67161845, 41411863, 955>>, <<86237516, 53955200, 955>>, <<110731163, 30089330, 955>>,
      <<71090814, 9633696, 956>>, <<91282412, 17001813, 956>>, <<117208937, 28847803, 956>>,
      <<75249627, 24256862, 957>>, <<96622434, 8616110, 957>>, <<124065661, 16313486, 957>>,
      <<79651731, 12559379, 958>>, <<102274847, 21976770, 958>>, <<131323503, 30624585, 958>>,
      <<84311358, 8268599, 959>>, <<108257926, 50040820, 959>>, <<69502964, 50310012, 960>>,
      <<89243573, 18370259, 960>>, <<114591016, 24126621, 960>>, <<73568888, 51328135, 961>>,
      <<94464323, 3458730, 961>>, <<121294591, 51564969, 961>>, <<77872669, 24741728, 962>>,
      <<99990486, 49305330, 962>>, <<128390326, 26463831, 962>>, <<82428221, 11649088, 963>>,
      <<105839931, 2633467, 963>>, <<67950580, 52172584, 964>>, <<87250272, 53480146, 964>>,
      <<112031567, 59336284, 964>>, <<71925690, 21295811, 965>>, <<92354414, 32230110, 965>>,
      <<118585415, 35968742, 965>>, <<76133343, 53575375, 966>>, <<97757148, 33184565, 966>>,
      <<125522663, 22135261, 966>>, <<80587145, 2880792, 967>>, <<103475942, 33112855, 967>>,
      <<132865740, 11896414, 967>>, <<85301493, 46796514, 968>>, <<109529285, 66356650, 968>>,
      <<70319193, 36281345, 969>>, <<90291631, 52825329, 969>>, <<115936750, 8651851, 969>>,
      <<74432866, 63542445, 970>>, <<95573692, 66887423, 970>>, <<122719050, 65395867, 970>>,
      <<78787190, 18891938, 971>>, <<101164754, 55759049, 971>>, <<129898116, 31932205, 971>>
    >>

\* np.exp(x), x in quarters
FExp(x) ==
    IF x.k = "nan" THEN NaN
    ELSE IF x.k = "ninf" THEN F64Zero
    ELSE IF x.k = "pinf" THEN PosInf
    ELSE IF x.v < ExpLo THEN F64Zero
    ELSE IF x.v > ExpHi THEN PosInf
    ELSE F64(ExpTable[x.v - ExpLo + 1][1], ExpTable[x.v - ExpLo + 1][2],
             ExpTable[x.v - ExpLo + 1][3])

\* one step of the long division of r by d, for r < 2 * d, r and d given
\* as <<hi, lo>>: s = <<r, q, n>> holds the running remainder r, the
\* quotient digits q found so far (a whole number) and the number n of
\* digits still to find; the next digit is 1 iff r >= d, and the remainder
\* left, r - d or r, is doubled
DivStep(s, d) ==
    IF GeP(s[1], d)
    THEN <<Mk(2 * (s[1][1] - d[1]), 2 * (s[1][2] - d[2])), 2 * s[2] + 1, s[3] - 1>>
    ELSE <<Mk(2 * s[1][1], 2 * s[1][2]), 2 * s[2], s[3] - 1>>

RECURSIVE DivBits(_, _)
\* the long division run until no digit is left to find
DivBits(s, d) == IF s[3] = 0 THEN s ELSE DivBits(DivStep(s, d), d)

\* the float64 nearest to (q + f) * 2^e, where q = <<hi, lo>> has 53 digits
\* and the fraction f is rem2 / (2 * d): above MinExp the quotient is rounded
\* at its last digit, below it at the digit of 2^MinExp (a subnormal
\* result, or 0.0), once in either case
RoundQuotient(q, rem2, d, e) ==
    IF e >= MinExp
    THEN Pack(RoundBits(q, IF GeP(rem2, d) THEN 1 ELSE 0,
                        rem2 # <<0, 0>> /\ rem2 # d), e)
    ELSE IF MinExp - e > 54 THEN F64Zero
    ELSE Pack(RoundBits(ShiftR(q, MinExp - e), Bit(q, MinExp - e - 1),
                        LowNonzero(q, MinExp - e - 1) \/ rem2 # <<0, 0>>), MinExp)

\* r / d * 2^e for r < 2 * d: 53 digits of the quotient, 27 and then 26
QuotientOf(r, d, e) ==
    LET low_digits(h) == DivBits(<<h[1], 0, 26>>, d)
        round_of(h, l) == RoundQuotient(<<h[2], l[2]>>, l[1], d, e)
        both(h) == round_of(h, low_digits(h))
    IN  both(DivBits(<<r, 0, 27>>, d))

\* n / d * 2^e for n, d = <<hi, lo>> of 53 digits each: the first digit of
\* the quotient that is found is 1
DivNormalised(n, d, e) ==
    IF GeP(n, d) THEN QuotientOf(n, d, e - 52)
    ELSE QuotientOf(Mk(2 * n[1], 2 * n[2]), d, e - 53)

\* x / y in float64 for x, y >= 0: the digits of a subnormal operand are
\* shifted up to 53, the quotient is taken by long division and rounded
\* once.  A zero divisor gives nan or inf, as numpy does
FDiv(x, y) ==
    IF x.k = "nan" \/ y.k = "nan" THEN NaN
    ELSE IF x.k # "fin" THEN (IF y.k # "fin" THEN NaN ELSE x)
    ELSE IF y.k # "fin" THEN F64Zero
    ELSE IF y = F64Zero THEN (IF x = F64Zero THEN NaN ELSE PosInf)
    ELSE IF x = F64Zero THEN F64Zero
    ELSE LET divide(sx, sy) ==
                 DivNormalised(ShiftL(<<x.hi, x.lo>>, sx), ShiftL(<<y.hi, y.lo>>, sy),
                               (x.e - sx) - (y.e - sy))
         IN  divide(53 - BitLen2(<<x.hi, x.lo>>), 53 - BitLen2(<<y.hi, y.lo>>))

\* gradients.softmax_grads.compute_kl_matrix(system, mode='belief'): pairwise
\* KL divergence of the agents' Gaussian beliefs (unit variance, one
\* dimension): KL_ij = (mu_i - mu_j)^2 / 2, so KL_ii = 0.  In halves.
compute_kl_matrix(sys) ==
    [a \in Idx(sys.n_agents) |-> [b \in Idx(sys.n_agents) |->
        Fin((sys.mu[a] - sys.mu[b]) * (sys.mu[a] - sys.mu[b]))]]

\* slip: the sign of the exponent is lost
scaled_logit_unsigned(kl, kappa) ==
    IF kappa = 0 THEN (IF kl.v = 0 THEN NaN ELSE PosInf)
    ELSE IF kappa > 0 THEN Fin((2 * Tenth * kl.v) \div kappa)
    ELSE Fin(0 - ((2 * Tenth * kl.v) \div (0 - kappa)))

\* -kl / kappa for a finite kl >= 0 (halves) and kappa (tenths), in quarters:
\* 4 * (kl/2) / (kappa/10) = 20 * kl / kappa.  Division by zero gives -inf, or
\* nan for -0.0 / 0.0, as numpy does
scaled_logit(kl, kappa) ==
    IF kappa = 0 THEN (IF kl.v = 0 THEN NaN ELSE NegInf)
    ELSE IF kappa > 0 THEN Fin(0 - ((2 * Tenth * kl.v) \div kappa))
    ELSE Fin((2 * Tenth * kl.v) \div (0 - kappa))

\* slip: the normaliser is taken over the whole matrix
normaliser_all(e, a, n) == FSumTo([b \in Idx(n) |-> FSumTo(e[b], n)], n)

\* beta.sum(axis=1, keepdims=True), row a
normaliser(e, a, n) == FSumTo(e[a], n)

\* lines 342-346: beta = np.exp(-kl_matrix / kappa), diagonal included
exp_weights(sys) ==
    LET kl_matrix == compute_kl_matrix(sys)
        kappa == sys.config.kappa_beta
        n == sys.n_agents
    IN  [a \in Idx(n) |-> [b \in Idx(n) |-> FExp(scaled_logit(kl_matrix[a][b], kappa))]]

\* lines 342-349: exp(-kl/kappa), each row divided by its sum; no check on
\* kappa, no exception
compute_social_influence_matrix(sys) ==
    LET n == sys.n_agents
        divide_row(row, row_sum) == [b \in Idx(n) |-> FDiv(row[b], row_sum)]
        divide_rows(e) == [a \in Idx(n) |-> divide_row(e[a], normaliser(e, a, n))]
    IN  divide_rows(exp_weights(sys))

\* belief means: near ones, one whose weight as seen from 0 is a subnormal
\* float64 at kappa_beta = 2.0 (exp(-729)) and underflows at 1.0, and one
\* whose weight underflows at both
BeliefMeans == (0 .. MaxMu) \cup {SubnormalMu, FarMu}
Temperatures == {0 - Tenth, 0, Tenth, 2 * Tenth}

NoSystem == [n_agents |-> 0, mu |-> <<>>, config |-> <<>>]

\* one call of compute_social_influence_matrix: it always returns
InfluenceCall ==
    /\ beta_result.status = "idle"
    /\ beta_result' = [status |-> "returned",
                       value |-> compute_social_influence_matrix(system)]
    /\ UNCHANGED system

----------------------------------------------------------------------------
(* epistemic_inertia.compute_epistemic_inertia                             *)
(* Mass-matrix entries are integers; inertia scores are in thousandths.    *)

Milli == 10 ^ 3

MaxMassAgents == 2
MaxK == 2
MaxMass == 2

\* an integer matrix that is symmetric with positive leading minors
IntSPD(A) ==
    /\ \A r \in DOMAIN A : \A c \in DOMAIN A : A[r][c] = A[c][r]
    /\ \A k \in 1 .. Dim(A) : LeadingMinor(A, k) > 0

\* geometry.multi_agent_mass_matrix.build_mu_mass_matrix(system): the
\* block-diagonal (N*K) x (N*K) matrix with agent a's K x K mass block at
\* rows and columns a*K .. (a+1)*K - 1 and zeros elsewhere; reads the system
build_mu_mass_matrix(sys) ==
    LET K == sys.K
        NK == sys.n_agents * K
    IN  [r \in Idx(NK) |-> [c \in Idx(NK) |->
            IF r \div K = c \div K THEN sys.blocks[r \div K][r % K][c % K] ELSE 0]]

\* A[lo:hi, lo:hi] with Python's clamping of the slice to the array
Slice(A, lo, hi) ==
    LET top == IF hi < Dim(A) THEN hi ELSE Dim(A)
        len == IF top > lo THEN top - lo ELSE 0
    IN  [r \in Idx(len) |-> [c \in Idx(len) |-> A[lo + r][lo + c]]]

\* np.trace
trace(A) == SumTo([d \in Idx(Dim(A)) |-> A[d][d]], Dim(A))

\* slip: the block is taken at offset a instead of a*K
agent_block_unscaled(MM, a, K) == Slice(MM, a, a + K)

\* line 279: M[i*K:(i+1)*K, i*K:(i+1)*K]
agent_block(MM, a, K) == Slice(MM, a * K, (a + 1) * K)

\* line 280: np.trace(block) / K, in thousandths
average_eigenvalue(block, K) == (trace(block) * Milli) \div K

NoMassSystem == [n_agents |-> 0, K |-> 0, blocks |-> <<>>]

\* lines 270-277: M = build_mu_mass_matrix(system); inertia = np.zeros(n_agents)
InertiaEnter ==
    /\ inertia_pc = "idle"
    /\ M' = build_mu_mass_matrix(mass_system)
    /\ inertia' = [a \in Idx(mass_system.n_agents) |-> 0]
    /\ inertia_i' = 0
    /\ inertia_pc' = "loop"
    /\ UNCHANGED <<mass_system, mass_at_call>>

\* lines 278-280: one pass of the loop over range(n_agents)
InertiaIter ==
    /\ inertia_pc = "loop"
    /\ inertia_i < mass_system.n_agents
    /\ LET K == mass_system.K
           block == agent_block(M, inertia_i, K)
       IN  inertia' = [inertia EXCEPT ![inertia_i] = average_eigenvalue(block, K)]
    /\ inertia_i' = inertia_i + 1
    /\ UNCHANGED <<mass_system, mass_at_call, M, inertia_pc>>

\* line 282: return inertia
InertiaReturn ==
    /\ inertia_pc = "loop"
    /\ inertia_i = mass_system.n_agents
    /\ inertia_pc' = "done"
    /\ UNCHANGED <<mass_system, mass_at_call, M, inertia, inertia_i>>

----------------------------------------------------------------------------
(* epistemic_inertia.get_preset_config / create_agents                     *)

MaxAgents == 6
MaxSeed == 2

\* Optional[...] values
None == [none |-> TRUE]
Some(x) == [none |-> FALSE, val |-> x]

\* SociologyPresets
Presets ==
    {"consensus", "polarization", "echo_chambers", "expert_vs_novice",
     "backfire", "neutral"}

\* lines 152-185
get_preset_config(preset) ==
    CASE preset = "consensus" ->
            SociologyConfig([initial_belief_spread |-> 1, prior_strength |-> 1,
                             social_influence_strength |-> 8, uncertainty_level |-> 2])
      [] preset = "polarization" ->
            SociologyConfig([initial_belief_spread |-> 10, prior_strength |-> 5,
                             social_influence_strength |-> 3, uncertainty_level |-> 3])
      [] preset = "echo_chambers" ->
            SociologyConfig([initial_belief_spread |-> 8, prior_strength |-> 6,
                             social_influence_strength |-> 2, uncertainty_level |-> 4])
      [] preset = "expert_vs_novice" ->
            SociologyConfig([initial_belief_spread |-> 3, prior_strength |-> 4,
                             social_influence_strength |-> 5, uncertainty_level |-> 5])
      [] preset = "backfire" ->
            SociologyConfig([initial_belief_spread |-> 5, prior_strength |-> 9,
                             social_influence_strength |-> 1, uncertainty_level |-> 1])
      [] OTHER -> SociologyConfig(<<>>)

\* the ranges the SociologyConfig docstring states (lines 107-111): "(0-1)"
\* for five attributes; it states none for belief_dimensions and temperature
InDocumentedRanges(c) ==
    \A f \in {"initial_belief_spread", "prior_strength", "social_influence_strength",
               "uncertainty_level", "learning_rate"} : 0 <= c[f] /\ c[f] <= 1 * Tenth

\* the keyword arguments a caller may build a SociologyConfig from: none, a
\* valid custom set, one field out of its documented range at a time, a
\* temperature of 0 and a dimension count of 0
CustomFields ==
    {<<>>,
     [belief_dimensions |-> 2, initial_belief_spread |-> 2,
      uncertainty_level |-> 4, learning_rate |-> 2],
     [social_influence_strength |-> 15],
     [prior_strength |-> 0 - 1],
     [uncertainty_level |-> 12],
     [initial_belief_spread |-> 0 - 3],
     [learning_rate |-> 20],
     [temperature |-> 0],
     [belief_dimensions |-> 0]}

\* what the operating system's entropy pool may hand to an unseeded generator
Entropy == {"e1", "e2"}

\* `seed + i if seed else None`: None and 0 are both falsy
agent_seed(seed, a) ==
    IF seed.none \/ seed.val = 0 THEN None ELSE Some(seed.val + a)

\* np.random.default_rng(s): seeded by s, or by fresh entropy e for None;
\* a negative seed is a ValueError
default_rng_raises(s) == ~s.none /\ s.val < 0
default_rng(s, e) ==
    IF s.none THEN [seeded |-> FALSE, state |-> e]
    ELSE [seeded |-> TRUE, state |-> s.val]

\* experts counted by rounding 20% of n_agents down
expert_sigma_scale_floor(a, n_agents) == IF 5 * (a + 1) <= n_agents THEN 1 ELSE 5

\* lines 221-226: i < n_agents * 0.2 in float64 is 5*i < n_agents
expert_sigma_scale(a, n_agents) == IF 5 * a < n_agents THEN 1 ELSE 5

\* every agent on the positive side
polarization_mu_scale_one_sided(a, n_agents) == 5

\* lines 232-235
polarization_mu_scale(a, n_agents) == IF a < n_agents \div 2 THEN 5 ELSE 0 - 5

\* lines 220-235: the assignments to the shared AgentConfig before agent a
\* is built; they depend on preset alone, not on whether config was given
configure_for_agent(ac, preset, a, n_agents) ==
    LET ac1 == IF preset = "expert_vs_novice"
               THEN [ac EXCEPT !.sigma_scale = expert_sigma_scale(a, n_agents)]
               ELSE ac
    IN  IF preset = "polarization"
        THEN [ac1 EXCEPT !.mu_scale = polarization_mu_scale(a, n_agents)]
        ELSE ac1

\* agent.agents.Agent(agent_id, config, rng): keeps the reference to the
\* config object it is given (config: the index of the object in
\* agent_config); init_config records the field values at construction
Agent(agent_id, config_ref, config_value, rng) ==
    [agent_id |-> agent_id, config |-> config_ref, init_config |-> config_value,
     rng |-> rng]

Seeds == {None} \cup {Some(s) : s \in (0 - 1) .. MaxSeed}

\* the caller builds its SociologyConfig (lines 97-120: the dataclass stores
\* the fields, nothing is validated), or passes config=None
ConstructConfig ==
    /\ pc = "start"
    /\ user_config' = IF args.config.none THEN None
                      ELSE Some(SociologyConfig(args.config.val))
    /\ pc' = "ready"
    /\ UNCHANGED <<args, config, agent_config, i, agents, call_no, first_agents>>

\* lines 212-218: pick the configuration, convert it, make the generator
CreateAgentsEnter ==
    /\ pc = "ready"
    /\ LET cfg == IF user_config.none THEN get_preset_config(args.preset)
                  ELSE user_config.val
       IN  /\ config' = Some(cfg)
           /\ agent_config' = Append(agent_config, to_agent_config(cfg))
    /\ pc' = IF default_rng_raises(args.seed) THEN "raised" ELSE "loop"
    /\ i' = 0
    /\ agents' = <<>>
    /\ UNCHANGED <<args, user_config, call_no, first_agents>>

\* lines 219-242: one pass of the loop: adjust the shared AgentConfig for
\* the preset, build the agent with its own generator, append it.  The
\* generator agent_rng of line 230 is never used and is dropped.
CreateAgentsIter ==
    /\ pc = "loop"
    /\ i < args.n_agents
    /\ \E e \in Entropy :
          LET ac == configure_for_agent(agent_config[call_no], args.preset, i, args.n_agents)
              rng == default_rng(agent_seed(args.seed, i), e)
          IN  /\ agent_config' = [agent_config EXCEPT ![call_no] = ac]
              /\ agents' = Append(agents, Agent(i, call_no, ac, rng))
    /\ i' = i + 1
    /\ UNCHANGED <<args, user_config, pc, config, call_no, first_agents>>

\* line 244: return agents
CreateAgentsReturn ==
    /\ pc = "loop"
    /\ i = args.n_agents
    /\ pc' = "done"
    /\ UNCHANGED <<args, user_config, config, agent_config, i, agents, call_no, first_agents>>

\* the caller keeps the first list and calls create_agents again with the
\* same arguments
CallAgain ==
    /\ pc = "done"
    /\ call_no = 1
    /\ first_agents' = agents
    /\ call_no' = 2
    /\ pc' = "ready"
    /\ UNCHANGED <<args, user_config, config, agent_config, i, agents>>

----------------------------------------------------------------------------
(* agent.trainer: one step of Trainer or HamiltonianTrainer, followed on   *)
(* the covariances.  Entries are in units of ensure_spd's default eps.     *)

MaxTrainAgents == 2
MaxSigmaScale == 4
MaxTrainSteps == 2
MaxRepair == 1

\* eps: float = 1e-6, one unit of the covariance grid
DefaultEps == 1

\* A + B, entry by entry
MatAdd(A, B) == [r \in DOMAIN A |-> [c \in DOMAIN A |-> FAdd(A[r][c], B[r][c])]]

\* sigma_scale * np.eye(K): the covariance an agent is created with
scaled_identity(K, s) == [r \in Idx(K) |-> [c \in Idx(K) |-> Fin(s * eye(K)[r][c])]]

\* the change proposed for a covariance in one step, -lr_sigma * grad_sigma
\* for Trainer and the momentum drift for HamiltonianTrainer: two units taken
\* from one entry on or above the diagonal (which may leave the proposal
\* asymmetric or indefinite), or a gradient that has become NaN
SigmaSteps(K) ==
    {[r \in Idx(K) |-> [c \in Idx(K) |-> IF <<r, c>> = rc THEN Fin(0 - 2) ELSE Fin(0)]] :
        rc \in {x \in Idx(K) \X Idx(K) : x[1] <= x[2]}}
    \cup {[r \in Idx(K) |-> [c \in Idx(K) |-> NaN]]}

\* np.linalg.cholesky(A) returns: LAPACK reads the lower triangle only and
\* stops at a pivot that is NaN or not positive
cholesky_succeeds(A) ==
    LET pivots_positive(L) ==
            /\ AllFinite(L)
            /\ \A k \in 1 .. Dim(A) :
                  LeadingMinor([r \in DOMAIN A |-> [c \in DOMAIN A |-> L[r][c].v]], k) > 0
    IN  pivots_positive([r \in DOMAIN A |-> [c \in DOMAIN A |->
                             IF c <= r THEN A[r][c] ELSE A[c][r]]])

\* the shift tried at repair attempt t: none at first, then t times ensure_spd's
\* eps on the diagonal; every attempt symmetrises
regularised(S, t) == IF t = 0 THEN symmetrize(S) ELSE ensure_spd(S, t * DefaultEps)

\* the repair loop of retract_spd from attempt t on: decompose; where the
\* Cholesky factorisation stops, repair by the next shift and decompose
\* again; the first attempt that factorises is recomposed and returned
RECURSIVE repair_from(_, _)
repair_from(S, t) ==
    LET recompose(R) ==
            IF cholesky_succeeds(R) THEN Some(R)
            ELSE IF t = MaxRepair THEN None
            ELSE repair_from(S, t + 1)
    IN  recompose(regularised(S, t))

\* retract_spd: None stands for the numeric-domain error, raised for a
\* proposal holding NaN or Inf and for one that no shift within MaxRepair
\* makes positive definite
retract_spd(S) == IF ~AllFinite(S) THEN None ELSE repair_from(S, 0)

\* GradientApplier over the snapshot: every agent's proposal for Sigma_q,
\* and for Sigma_p where the priors are learned rather than fixed, is
\* retracted before any agent is written; one failure fails the step (None)
apply_step(sys, D) ==
    LET write_all(new_q, new_p) ==
            IF \E a \in Idx(sys.n_agents) : new_q[a].none \/ new_p[a].none THEN None
            ELSE Some([sys EXCEPT !.Sigma_q = [a \in Idx(sys.n_agents) |-> new_q[a].val],
                                  !.Sigma_p = [a \in Idx(sys.n_agents) |-> new_p[a].val]])
    IN  write_all([a \in Idx(sys.n_agents) |-> retract_spd(MatAdd(sys.Sigma_q[a], D))],
                  [a \in Idx(sys.n_agents) |->
                      IF sys.learn_priors THEN retract_spd(MatAdd(sys.Sigma_p[a], D))
                      ELSE Some(sys.Sigma_p[a])])

NoTrainSystem == [n_agents |-> 0, K |-> 0, integrator |-> "none", learn_priors |-> FALSE,
                  Sigma_q |-> <<>>, Sigma_p |-> <<>>]

\* the commit phase shared by the two integrators
commit_or_fail(D) ==
    /\ train_prev' = train
    /\ train_delta' = D
    /\ train_steps' = train_steps + 1
    /\ \E next \in {apply_step(train, D)} :
          IF next.none
          THEN train' = train /\ train_status' = "failed"
          ELSE train' = next.val /\ train_status' = "running"

\* Trainer.step(): gradient step on Sigma_q, retraction, commit
TrainerStep ==
    /\ train_status = "running"
    /\ train.integrator = "Trainer"
    /\ train_steps < MaxTrainSteps
    /\ \E D \in SigmaSteps(train.K) : commit_or_fail(D)

\* HamiltonianTrainer.step(): half-kick, drift of Sigma_q, retraction,
\* half-kick, commit
HamiltonianStep ==
    /\ train_status = "running"
    /\ train.integrator = "HamiltonianTrainer"
    /\ train_steps < MaxTrainSteps
    /\ \E D \in SigmaSteps(train.K) : commit_or_fail(D)

----------------------------------------------------------------------------
(* Claims about math_utils.ensure_spd (checked under SpecSpd)              *)

SpdReturned == spd_result.status = "returned"
SpdCalled == spd_result.status \in {"returned", "raised"}

\* C1: for every square real (finite) matrix Sigma and every eps > 0,
\* ensure_spd(Sigma, eps) returns a symmetric matrix with strictly positive
\* eigenvalues.  The code only shifts the spectrum of the symmetric part by
\* eps, so a matrix with an eigenvalue <= -eps comes back not SPD.
C1_EnsureSpdReturnsSPD ==
    (SpdReturned /\ AllFinite(Sigma)) => IsSPD(spd_result.value)

\* C5: ensure_spd raises whenever its input cannot be repaired to SPD: a NaN
\* or Inf entry, or eigenvalues still non-positive after adding eps*I.  The
\* code has no check and no raise: it returns in every case.
C5_EnsureSpdFailsFast ==
    (SpdCalled /\ (~AllFinite(Sigma) \/ ~IsSPD(ensure_spd(Sigma, eps))))
        => spd_result.status = "raised"

----------------------------------------------------------------------------
(* Claims about compute_social_influence_matrix (under SpecInfluence)      *)

InfluenceReturned == beta_result.status = "returned"
InfluenceCalled == beta_result.status \in {"returned", "raised"}
kappa_beta == system.config.kappa_beta
beta == beta_result.value
KL == compute_kl_matrix(system)
Others(a) == Idx(system.n_agents) \ {a}

\* the sum of row a of the returned matrix
RowSum(a) == FSumTo(beta[a], system.n_agents)

\* 1 - 2^-40 and 1 + 2^-40 as float64 values
RowSumLow == F64(2 * Limb - 1, Limb - 2 ^ 13, 0 - 53)
RowSumHigh == F64(Limb, 2 ^ 12, 0 - 52)

\* C2: for every system with at least one agent and every temperature
\* kappa_beta > 0, every entry of the returned matrix is a finite number
\* >= 0, the row normaliser is never zero, and every row sums to 1 (the
\* float64 sum of the row, taken left to right, lies within 2^-40 of 1).
C2_RowStochastic ==
    (InfluenceReturned /\ kappa_beta > 0) =>
        \A a \in Idx(system.n_agents) :
            /\ \A b \in Idx(system.n_agents) : FGe(beta[a][b], F64Zero)
            /\ FGt(normaliser(exp_weights(system), a, system.n_agents), F64Zero)
            /\ FGe(RowSum(a), RowSumLow)
            /\ FGe(RowSumHigh, RowSum(a))

\* a returned matrix with, in one row, a weight that underflowed to 0, a
\* positive weight that is a subnormal float64 and a larger positive weight
\* on another agent
C2_Witness ==
    /\ InfluenceReturned
    /\ kappa_beta > 0
    /\ \E a \in Idx(system.n_agents) :
          /\ \E b \in Others(a) : beta[a][b] = F64Zero
          /\ \E b \in Others(a) : IsSubnormal(beta[a][b])
          /\ \E b \in Others(a) : FGt(beta[a][b], F64Zero) /\ ~IsSubnormal(beta[a][b])

\* C3: the diagonal is excluded from normalization: for every agent i (of a
\* system with other agents to attend to), beta_ii = 0 and row i is
\* normalised over the other agents only.  The code
\* exponentiates and sums the whole row, so beta_ii = exp(0)/sum is the
\* largest weight of its row.
C3_DiagonalExcluded ==
    (InfluenceReturned /\ kappa_beta > 0 /\ system.n_agents >= 2) =>
        \A a \in Idx(system.n_agents) : beta[a][a] = F64Zero

\* C4: with a temperature kappa_beta <= 0 the call raises and returns no
\* matrix.  The code divides and exponentiates without a check: it returns
\* NaN for kappa_beta = 0 and inverted weights for kappa_beta < 0.
C4_NonPositiveTemperatureRaises ==
    (InfluenceCalled /\ kappa_beta <= 0) => beta_result.status = "raised"

\* C10 as stated: for kappa_beta > 0, agent i and other agents j, k:
\* KL_ij <= KL_ik implies beta_ij >= beta_ik, strictly when the KL values
\* differ.  Fails where both exponentials underflow to 0.
C10_StrictlyMonotone ==
    (InfluenceReturned /\ kappa_beta > 0) =>
        \A a \in Idx(system.n_agents) : \A b, c \in Others(a) :
            (KL[a][b].v <= KL[a][c].v) =>
                /\ FGe(beta[a][b], beta[a][c])
                /\ (KL[a][b].v < KL[a][c].v => FGt(beta[a][b], beta[a][c]))

\* C10 amended: for kappa_beta > 0, agent i and other agents j, k:
\* KL_ij <= KL_ik implies beta_ij >= beta_ik (equality is possible although
\* the KL values differ).
C10_WeaklyMonotone ==
    (InfluenceReturned /\ kappa_beta > 0) =>
        \A a \in Idx(system.n_agents) : \A b, c \in Others(a) :
            (KL[a][b].v <= KL[a][c].v) => FGe(beta[a][b], beta[a][c])

\* the exponent -(KL_ac - KL_ab) / kappa_beta that neighbour c is left with
\* once the row is restricted to the other agents and its largest exponent,
\* that of the nearest neighbour b, is subtracted
RelativeLogit(a, b, c) == scaled_logit(Fin(KL[a][c].v - KL[a][b].v), kappa_beta)

\* an agent a with three other agents b, c, d, each farther than the one
\* before: b is weighted strictly higher than c, and c and d are both
\* weighted 0 although their KL values differ; the exponentials of c and d
\* underflow relative to the nearest neighbour too, so neither the diagonal
\* term of the row sum nor the missing max-subtraction makes the tie
C10_Witness ==
    /\ InfluenceReturned
    /\ kappa_beta > 0
    /\ \E a \in Idx(system.n_agents) : \E b, c, d \in Others(a) :
          /\ KL[a][b].v < KL[a][c].v
          /\ KL[a][c].v < KL[a][d].v
          /\ FGt(beta[a][b], beta[a][c])
          /\ beta[a][c] = F64Zero
          /\ beta[a][d] = F64Zero
          /\ \A o \in Others(a) : KL[a][b].v <= KL[a][o].v
          /\ FExp(RelativeLogit(a, b, c)) = F64Zero
          /\ FExp(RelativeLogit(a, b, d)) = F64Zero

----------------------------------------------------------------------------
(* Claims about compute_epistemic_inertia (under SpecInertia)              *)

\* the diagonal of agent a's own block of M, summed
OwnDiagonalSum(a) ==
    SumTo([d \in Idx(mass_system.K) |-> M[a * mass_system.K + d][a * mass_system.K + d]],
          mass_system.K)

\* C8: compute_epistemic_inertia returns one score per agent, in agent
\* order: the result has length N, entry i is trace(M[iK:(i+1)K, iK:(i+1)K])/K,
\* read from the diagonal of agent i's own block alone, and the system is
\* left as it was at the call.
C8_InertiaIsBlockTraceOverK ==
    inertia_pc = "done" =>
        /\ DOMAIN inertia = Idx(mass_system.n_agents)
        /\ \A a \in Idx(mass_system.n_agents) :
              inertia[a] = (OwnDiagonalSum(a) * Milli) \div mass_system.K
        /\ mass_system = mass_at_call

\* a finished call on two or more agents of dimension >= 2 whose blocks have
\* off-diagonal mass and different traces
C8_Witness ==
    /\ inertia_pc = "done"
    /\ mass_system.n_agents >= 2
    /\ mass_system.K >= 2
    /\ M[0][1] # 0
    /\ inertia[0] # inertia[1]

----------------------------------------------------------------------------
(* Claims about SociologyConfig and create_agents (under SpecAgents)       *)

Returned == pc = "done"
AgentIds == 1 .. Len(agents)

\* C6: create_agents is reproducible for every integer seed, 0 included:
\* two calls with the same arguments give agent i the same random source,
\* the one seeded with seed + i.  The code tests `if seed`, which is false
\* for 0, so seed = 0 gives every agent an unseeded source.
C6_ReproducibleForEveryIntegerSeed ==
    (Returned /\ call_no = 2 /\ ~args.seed.none) =>
        /\ Len(agents) = Len(first_agents)
        /\ \A a \in AgentIds :
              /\ agents[a].rng = [seeded |-> TRUE, state |-> args.seed.val + (a - 1)]
              /\ agents[a].rng = first_agents[a].rng

\* C7: a custom config overrides the preset: whatever the preset, every
\* agent is constructed with exactly the AgentConfig values derived from
\* the config.  The code applies the per-agent changes of the presets
\* expert_vs_novice and polarization whether or not a config was given.
C7_ConfigOverridesPreset ==
    (~args.config.none /\ pc \in {"loop", "done"}) =>
        \A a \in AgentIds : agents[a].init_config = to_agent_config(user_config.val)

\* C9: configuration values outside their documented ranges, a temperature
\* <= 0 and belief_dimensions < 1 are rejected at construction time: no
\* SociologyConfig object holding such a value comes to exist, and no agent
\* is created from one.  The dataclass validates nothing, and create_agents
\* builds agents from such a config.
C9_OutOfRangeRejectedAtConstruction ==
    (/\ ~args.config.none
     /\ LET c == SociologyConfig(args.config.val)
        IN  ~InDocumentedRanges(c) \/ c.temperature <= 0 \/ c.belief_dimensions < 1) =>
        /\ user_config = None
        /\ agents = <<>>

\* the agents of the list constructed with a given mu_scale / sigma_scale
BuiltWithMu(v) == {a \in AgentIds : agents[a].init_config.mu_scale = v}
BuiltWithSigma(v) == {a \in AgentIds : agents[a].init_config.sigma_scale = v}

\* C12: for preset POLARIZATION with config None and n_agents >= 2,
\* create_agents builds two non-empty opposing groups: agent i is constructed
\* with mu_scale 0.5 exactly when i < n_agents // 2 and with -0.5 otherwise,
\* so the two group sizes differ by at most one.
C12_PolarizationHalves ==
    (Returned /\ args.preset = "polarization" /\ args.config.none /\ args.n_agents >= 2) =>
        /\ Len(agents) = args.n_agents
        /\ \A a \in AgentIds :
              /\ agents[a].agent_id = a - 1
              /\ agents[a].init_config.mu_scale \in {5, 0 - 5}
              /\ agents[a].init_config.mu_scale = 5 <=> (a - 1) < args.n_agents \div 2
        /\ BuiltWithMu(5) # {}
        /\ BuiltWithMu(0 - 5) # {}
        /\ Cardinality(BuiltWithMu(0 - 5)) - Cardinality(BuiltWithMu(5)) \in {0, 1}

\* an odd population has been split into two unequal groups
C12_Witness ==
    /\ Returned
    /\ args.preset = "polarization"
    /\ args.config.none
    /\ args.n_agents = 3
    /\ Cardinality(BuiltWithMu(5)) = 1
    /\ Cardinality(BuiltWithMu(0 - 5)) = 2

\* the experts are a prefix of the index order and all others are novices
ExpertsArePrefix ==
    /\ Len(agents) = args.n_agents
    /\ \A a \in AgentIds : agents[a].init_config.sigma_scale \in {1, 5}
    /\ \A a, b \in AgentIds :
          (a < b /\ agents[b].init_config.sigma_scale = 1) =>
              agents[a].init_config.sigma_scale = 1

\* C13 as stated: for preset EXPERT_VS_NOVICE and n_agents >= 1 the agents
\* constructed with sigma_scale 0.1 are a prefix of the index order, their
\* number is at most 20% of n_agents, and every other agent is constructed
\* with sigma_scale 0.5.
C13_ExpertsAtMostFifth ==
    (Returned /\ args.preset = "expert_vs_novice" /\ args.n_agents >= 1) =>
        /\ ExpertsArePrefix
        /\ 5 * Cardinality(BuiltWithSigma(1)) <= args.n_agents

\* C13 amended: the experts are a prefix, every other agent is a novice, and
\* the number of experts is 20% of n_agents rounded up: the least count
\* whose fivefold reaches n_agents, so at least one agent is an expert.
C13_ExpertsFifthRoundedUp ==
    (Returned /\ args.preset = "expert_vs_novice" /\ args.n_agents >= 1) =>
        /\ ExpertsArePrefix
        /\ 5 * Cardinality(BuiltWithSigma(1)) >= args.n_agents
        /\ 5 * (Cardinality(BuiltWithSigma(1)) - 1) < args.n_agents

\* a population that 5 does not divide and that has more than one expert:
\* the first two of six agents are experts, the other four novices
C13_Witness ==
    /\ Returned
    /\ args.preset = "expert_vs_novice"
    /\ args.n_agents = 6
    /\ BuiltWithSigma(1) = {1, 2}
    /\ BuiltWithSigma(5) = {3, 4, 5, 6}

\* C14: per-agent configuration is not disturbed by later agents: once agent
\* i is constructed, building the later agents leaves unchanged the mu_scale
\* and sigma_scale of the config object handed to agent i, so at every later
\* point and on return each agent's config carries the values it was
\* constructed with, and the caller's SociologyConfig is as it was built.
\* The code hands the same AgentConfig object to every agent and assigns to
\* it on every pass, so the earlier agents see the last agent's values.
C14_ConfigNotDisturbedByLaterAgents ==
    pc \in {"loop", "done"} =>
        /\ \A a \in AgentIds :
              /\ agent_config[agents[a].config].mu_scale = agents[a].init_config.mu_scale
              /\ agent_config[agents[a].config].sigma_scale = agents[a].init_config.sigma_scale
        /\ user_config = IF args.config.none THEN None
                         ELSE Some(SociologyConfig(args.config.val))

----------------------------------------------------------------------------
(* Claims about the integrators' steps (under SpecTrainer)                 *)

TrainAgents == Idx(train.n_agents)

Proposed(a) == MatAdd(train.Sigma_q[a], train_delta)

----------------------------------------------------------------------------
(* Specifications: one per function under study.  The variables of the     *)
(* functions that are not called keep their idle values.                   *)

\* a square matrix of float64 values, specials included, and an eps > 0
SpdInit ==
    /\ \E K \in 1 .. MaxDim :
          Sigma \in [Idx(K) -> [Idx(K) -> FiniteEntries \cup SpecialEntries]]
    /\ eps \in 1 .. MaxEps
    /\ spd_result = NoCall
    /\ system = NoSystem
    /\ beta_result = Unused
    /\ mass_system = NoMassSystem
    /\ mass_at_call = NoMassSystem
    /\ M = <<>>
    /\ inertia = <<>>
    /\ inertia_i = 0
    /\ inertia_pc = "unused"
    /\ args = <<>>
    /\ user_config = None
    /\ pc = "unused"
    /\ config = None
    /\ agent_config = <<>>
    /\ i = 0
    /\ agents = <<>>
    /\ call_no = 0
    /\ first_agents = <<>>
    /\ train = NoTrainSystem
    /\ train_prev = NoTrainSystem
    /\ train_delta = <<>>
    /\ train_steps = 0
    /\ train_status = "unused"

\* a MultiAgentSystem of n agents whose configuration comes from a
\* SociologyConfig through to_system_config
InfluenceInit ==
    /\ \E n \in 1 .. MaxInfluenceAgents, t \in Temperatures :
          \E mu \in [Idx(n) -> BeliefMeans] :
             system = [n_agents |-> n, mu |-> mu,
                       config |-> to_system_config(SociologyConfig([temperature |-> t]))]
    /\ beta_result = NoCall
    /\ Sigma = <<>>
    /\ eps = 0
    /\ spd_result = Unused
    /\ mass_system = NoMassSystem
    /\ mass_at_call = NoMassSystem
    /\ M = <<>>
    /\ inertia = <<>>
    /\ inertia_i = 0
    /\ inertia_pc = "unused"
    /\ args = <<>>
    /\ user_config = None
    /\ pc = "unused"
    /\ config = None
    /\ agent_config = <<>>
    /\ i = 0
    /\ agents = <<>>
    /\ call_no = 0
    /\ first_agents = <<>>
    /\ train = NoTrainSystem
    /\ train_prev = NoTrainSystem
    /\ train_delta = <<>>
    /\ train_steps = 0
    /\ train_status = "unused"

\* a system of n agents of dimension K, each with an SPD mass block
InertiaInit ==
    /\ \E n \in 1 .. MaxMassAgents, K \in 1 .. MaxK, off \in {0, 1} :
          \E d \in [Idx(n) -> [Idx(K) -> 1 .. MaxMass]] :
             LET blocks == [a \in Idx(n) |-> [r \in Idx(K) |-> [c \in Idx(K) |->
                               IF r = c THEN d[a][r] ELSE off]]]
             IN  /\ \A a \in Idx(n) : IntSPD(blocks[a])
                 /\ mass_system = [n_agents |-> n, K |-> K, blocks |-> blocks]
    /\ mass_at_call = mass_system
    /\ M = <<>>
    /\ inertia = <<>>
    /\ inertia_i = 0
    /\ inertia_pc = "idle"
    /\ Sigma = <<>>
    /\ eps = 0
    /\ spd_result = Unused
    /\ system = NoSystem
    /\ beta_result = Unused
    /\ args = <<>>
    /\ user_config = None
    /\ pc = "unused"
    /\ config = None
    /\ agent_config = <<>>
    /\ i = 0
    /\ agents = <<>>
    /\ call_no = 0
    /\ first_agents = <<>>
    /\ train = NoTrainSystem
    /\ train_prev = NoTrainSystem
    /\ train_delta = <<>>
    /\ train_steps = 0
    /\ train_status = "unused"

\* the arguments of a create_agents call and of the SociologyConfig behind it
AgentsInit ==
    /\ args \in [n_agents : 0 .. MaxAgents, preset : Presets, seed : Seeds,
                 config : {None} \cup {Some(f) : f \in CustomFields}]
    /\ user_config = None
    /\ pc = "start"
    /\ config = None
    /\ agent_config = <<>>
    /\ i = 0
    /\ agents = <<>>
    /\ call_no = 1
    /\ first_agents = <<>>
    /\ Sigma = <<>>
    /\ eps = 0
    /\ spd_result = Unused
    /\ system = NoSystem
    /\ beta_result = Unused
    /\ mass_system = NoMassSystem
    /\ mass_at_call = NoMassSystem
    /\ M = <<>>
    /\ inertia = <<>>
    /\ inertia_i = 0
    /\ inertia_pc = "unused"
    /\ train = NoTrainSystem
    /\ train_prev = NoTrainSystem
    /\ train_delta = <<>>
    /\ train_steps = 0
    /\ train_status = "unused"

\* a MultiAgentSystem of n agents of belief dimension K under one of the two
\* integrators, with fixed or learned priors; every agent starts with
\* Sigma_q = Sigma_p = sigma_scale * I.  A step treats every agent alike, so
\* the agents are listed by non-decreasing sigma_scale.
TrainerInit ==
    /\ \E n \in 1 .. MaxTrainAgents, K \in 1 .. MaxDim,
          integrator \in {"Trainer", "HamiltonianTrainer"}, learn_priors \in BOOLEAN :
          \E scale \in {f \in [Idx(n) -> 1 .. MaxSigmaScale] :
                           \A a, b \in Idx(n) : a <= b => f[a] <= f[b]} :
             train = [n_agents |-> n, K |-> K, integrator |-> integrator,
                      learn_priors |-> learn_priors,
                      Sigma_q |-> [a \in Idx(n) |-> scaled_identity(K, scale[a])],
                      Sigma_p |-> [a \in Idx(n) |-> scaled_identity(K, scale[a])]]
    /\ train_prev = train
    /\ train_delta = <<>>
    /\ train_steps = 0
    /\ train_status = "running"
    /\ Sigma = <<>>
    /\ eps = 0
    /\ spd_result = Unused
    /\ system = NoSystem
    /\ beta_result = Unused
    /\ mass_system = NoMassSystem
    /\ mass_at_call = NoMassSystem
    /\ M = <<>>
    /\ inertia = <<>>
    /\ inertia_i = 0
    /\ inertia_pc = "unused"
    /\ args = <<>>
    /\ user_config = None
    /\ pc = "unused"
    /\ config = None
    /\ agent_config = <<>>
    /\ i = 0
    /\ agents = <<>>
    /\ call_no = 0
    /\ first_agents = <<>>

SpdNext == EnsureSpdCall /\ UNCHANGED <<influence_vars, inertia_vars, agents_vars, trainer_vars>>
SpecSpd == SpdInit /\ [][SpdNext]_vars

InfluenceNext == InfluenceCall /\ UNCHANGED <<spd_vars, inertia_vars, agents_vars, trainer_vars>>
SpecInfluence == InfluenceInit /\ [][InfluenceNext]_vars

InertiaNext ==
    \/ InertiaEnter /\ UNCHANGED <<spd_vars, influence_vars, agents_vars, trainer_vars>>
    \/ InertiaIter /\ UNCHANGED <<spd_vars, influence_vars, agents_vars, trainer_vars>>
    \/ InertiaReturn /\ UNCHANGED <<spd_vars, influence_vars, agents_vars, trainer_vars>>
SpecInertia == InertiaInit /\ [][InertiaNext]_vars

AgentsNext ==
    \/ ConstructConfig /\ UNCHANGED <<spd_vars, influence_vars, inertia_vars, trainer_vars>>
    \/ CreateAgentsEnter /\ UNCHANGED <<spd_vars, influence_vars, inertia_vars, trainer_vars>>
    \/ CreateAgentsIter /\ UNCHANGED <<spd_vars, influence_vars, inertia_vars, trainer_vars>>
    \/ CreateAgentsReturn /\ UNCHANGED <<spd_vars, influence_vars, inertia_vars, trainer_vars>>
    \/ CallAgain /\ UNCHANGED <<spd_vars, influence_vars, inertia_vars, trainer_vars>>
SpecAgents == AgentsInit /\ [][AgentsNext]_vars

TrainerNext ==
    \/ TrainerStep /\ UNCHANGED <<spd_vars, influence_vars, inertia_vars, agents_vars>>
    \/ HamiltonianStep /\ UNCHANGED <<spd_vars, influence_vars, inertia_vars, agents_vars>>
SpecTrainer == TrainerInit /\ [][TrainerNext]_vars

\* the whole front end: any one of the functions is called
Init == SpdInit \/ InfluenceInit \/ InertiaInit \/ AgentsInit \/ TrainerInit
Next == SpdNext \/ InfluenceNext \/ InertiaNext \/ AgentsNext \/ TrainerNext
Spec == Init /\ [][Next]_vars

====
